---- MODULE Spec2Model ----
(***************************************************************************)
(* Note Relay host plugin: the peer-session protocol engine.               *)
(*                                                                         *)
(* Two session engines exist in the repository:                            *)
(*   "main" - NoteRelay.answerCall + NoteRelay.processCommand (main.js)    *)
(*   "cmd"  - handleIncomingOffer (webrtc.js) + handleCommand/handleAuth   *)
(*            (the commands module, second half of routes.js)              *)
(*                                                                         *)
(* JavaScript strings that the code converts or inspects (emails, paths,   *)
(* error messages) are sequences of one-character strings, so that         *)
(* toLowerCase, trim, replace and includes are computed, not assumed.      *)
(* Credential hashes are only ever compared with ===, so they are atomic.  *)
(* An absent (undefined) message field is a key missing from the record.   *)
(***************************************************************************)
EXTENDS Integers, Sequences, FiniteSets, TLC

VARIABLES
    settings,   \* plugin.settings: userEmail, masterPasswordHash, guestList
    vault,      \* the vault: path -> [kind, data] for every existing entry
    sessions,   \* per peer: lifecycle, engine and the closure / peerState flags
    last,       \* observation of the most recent handler run (history)
    chan,       \* one answerCall peer seen from peer.sendChunked: calls and frames
    host        \* the plugin's signaling registration, heartbeat and clock

vars == <<settings, vault, sessions, last, chan, host>>

\* Number of peer connections offered to the host in one run.
MaxSessions == 1

-----------------------------------------------------------------------------
(* String helpers (String.prototype semantics on character sequences).     *)

\* String.prototype.toLowerCase on the alphabet used by the model.
LowerChar(c) ==
    CASE c = "A" -> "a"
      [] c = "B" -> "b"
      [] c = "O" -> "o"
      [] c = "P" -> "p"
      [] c = "W" -> "w"
      [] c = "X" -> "x"
      [] c = "Z" -> "z"
      [] OTHER -> c

toLowerCase(s) == [i \in 1..Len(s) |-> LowerChar(s[i])]

IsSpace(c) == c = " "

RECURSIVE trimStart(_)
trimStart(s) ==
    IF s # <<>> /\ IsSpace(Head(s)) THEN trimStart(Tail(s)) ELSE s

RECURSIVE trimEnd(_)
trimEnd(s) ==
    IF s # <<>> /\ IsSpace(s[Len(s)]) THEN trimEnd(SubSeq(s, 1, Len(s) - 1)) ELSE s

\* String.prototype.trim
trim(s) == trimEnd(trimStart(s))

\* String.prototype.includes
includes(s, pat) ==
    \E i \in 1..(Len(s) - Len(pat) + 1) : SubSeq(s, i, i + Len(pat) - 1) = pat

\* s.replace(/x/g, y) for a single character x
replaceChar(s, x, y) == [i \in 1..Len(s) |-> IF s[i] = x THEN y ELSE s[i]]

\* s.replace(/pat/g, '') for a literal pattern: leftmost, non-overlapping
RECURSIVE removeAll(_, _)
removeAll(s, pat) ==
    IF Len(s) < Len(pat) THEN s
    ELSE IF SubSeq(s, 1, Len(pat)) = pat
         THEN removeAll(SubSeq(s, Len(pat) + 1, Len(s)), pat)
         ELSE <<Head(s)>> \o removeAll(Tail(s), pat)

\* s.replace(/^\/+/, '')
RECURSIVE stripLeadingSlashes(_)
stripLeadingSlashes(s) ==
    IF s # <<>> /\ Head(s) = "/" THEN stripLeadingSlashes(Tail(s)) ELSE s

\* s.replace(/[\/]{2,}/g, '/')
RECURSIVE collapseSlashes(_)
collapseSlashes(s) ==
    IF Len(s) < 2 THEN s
    ELSE IF s[1] = "/" /\ s[2] = "/"
         THEN collapseSlashes(Tail(s))
         ELSE <<Head(s)>> \o collapseSlashes(Tail(s))

\* A message field that is present
Has(m, k) == k \in DOMAIN m

\* A string argument as its readers see it: every reader of a path tests it
\* with !path first, which treats undefined and '' alike.
Arg(m, k) == IF Has(m, k) THEN m[k] ELSE <<>>

\* JavaScript truthiness of an optional string field
TruthySeq(m, k) == Has(m, k) /\ m[k] # <<>>
TruthyStr(m, k) == Has(m, k) /\ m[k] # ""

-----------------------------------------------------------------------------
(* Path sanitizers.                                                        *)

\* NoteRelay.sanitizePath (main.js, first revision). Step 2 is the regular
\* expression /\.\.\+/g, which matches the three characters "..+" .
sanitizePath(unsafePath) ==
    IF unsafePath = <<>> THEN <<>>
    ELSE LET c1 == replaceChar(unsafePath, "\\", "/")
             c2 == removeAll(c1, <<".", ".", "+">>)
             c3 == stripLeadingSlashes(c2)
             c4 == collapseSlashes(c3)
         IN  trim(c4)

\* sanitizePath of the commands module: null (here: rejected) or the path
\* with backslashes turned into slashes.
cmdPathRejected(path) ==
    \/ path = <<>>
    \/ includes(path, <<".", ".", "/">>)
    \/ includes(path, <<".", ".", "\\">>)
    \/ includes(path, <<"~", "/">>)
    \/ includes(path, <<"\\", "\\">>)

cmdSanitizePath(path) == replaceChar(path, "\\", "/")

-----------------------------------------------------------------------------
(* Settings: the owner record and the guest list the handshake reads.      *)

OwnerEmail == <<"O", "@", "x">>
GuestA == [email |-> <<"a", "@", "b">>, passHash |-> "H", mode |-> "ro", status |-> "verified"]
GuestP == [email |-> <<"p", "@", "b">>, passHash |-> "H", mode |-> "ro", status |-> "pending"]
GuestW == [email |-> <<"w", "@", "b">>, passHash |-> "H", mode |-> "rw", status |-> "verified"]
\* a guest entry stored under the owner's own (lower-cased) email
GuestO == [email |-> <<"o", "@", "x">>, passHash |-> "H", mode |-> "ro", status |-> "verified"]

\* an owner with a master password and guests of every kind
SettingsFull ==
    [userEmail |-> OwnerEmail, masterPasswordHash |-> "M",
     guestList |-> <<GuestA, GuestP, GuestW, GuestO>>]

SettingsSet ==
    { SettingsFull,
      [userEmail |-> <<>>, masterPasswordHash |-> "",
       guestList |-> <<GuestO, GuestA>>],
      [userEmail |-> OwnerEmail, masterPasswordHash |-> "",
       guestList |-> <<>>] }

-----------------------------------------------------------------------------
(* Inbound messages (the parsed JSON of one data event).                   *)

NoField == [k \in {} |-> 0]

MsgEmails ==
    { <<>>, <<"o", "@", "x">>, <<" ", "O", "@", "X", " ">>, <<"a", "@", "b">>,
      <<"p", "@", "b">>, <<"w", "@", "b">> }

MsgHashes == {"", "M", "H"}

MsgPaths == { <<"a">>, <<"/", "a">>, <<"b">> }

MsgData == {"y"}

HandshakeCmds == {"PING", "HANDSHAKE"}

HandshakeMsgs ==
    { [cmd |-> c] @@ e @@ h :
        c \in HandshakeCmds,
        e \in {NoField} \cup {[guestEmail |-> x] : x \in MsgEmails},
        h \in {NoField} \cup {[authHash |-> x] : x \in MsgHashes} }

PathPart == {NoField} \cup {[path |-> x] : x \in MsgPaths}

RenamePart ==
    { p @@ n : p \in {[path |-> <<"a">>], [path |-> <<"b">>]},
               n \in {NoField, [newPath |-> <<>>], [newPath |-> <<"a">>],
                      [newPath |-> <<"/", "b">>]} }

\* A command name an engine does not know is treated alike whatever its
\* arguments, so such names are sent bare; "BOGUS" stands for any name that
\* neither engine knows.

\* what a peer sends to a session of answerCall
MainCommandMsgs ==
    { [cmd |-> c] @@ p :
        c \in {"GET_RENDERED_FILE", "GET_FILE", "CREATE_FILE", "CREATE_FOLDER",
               "DELETE_FILE", "OPEN_FILE"},
        p \in PathPart }
    \cup { [cmd |-> "SAVE_FILE", data |-> d] @@ p : d \in MsgData, p \in PathPart }
    \cup { [cmd |-> "RENAME_FILE"] @@ x : x \in RenamePart }
    \cup { [cmd |-> c] :
             c \in {"GET_TREE", "OPEN_DAILY_NOTE", "CREATE", "WRITE", "DELETE",
                    "RENAME", "FILE_WRITE", "BOGUS"} }

\* what a peer sends to a session of handleIncomingOffer
CmdCommandMsgs ==
    { [cmd |-> c] @@ p :
        c \in {"FILE_READ", "GET_RENDERED_FILE", "GET_FILE"}, p \in PathPart }
    \cup { [cmd |-> "FILE_WRITE", data |-> d] @@ p : d \in MsgData, p \in PathPart }
    \cup { [cmd |-> "SEARCH"], [cmd |-> "SEARCH", query |-> <<"a">>] }
    \cup { [cmd |-> c] :
             c \in {"FILE_LIST", "CREATE", "WRITE", "DELETE", "RENAME", "SAVE_FILE",
                    "CREATE_FILE", "BOGUS"} }

\* msg.requestId: the correlation identifier a requester may add to a message
RequestIds == {7}

\* messages of either engine sent with a requestId: a granted and a denied
\* handshake, and commands of every reply path
MainRequestIdMsgs ==
    { m @@ [requestId |-> i] :
        m \in { [cmd |-> "PING", guestEmail |-> <<"o", "@", "x">>, authHash |-> "M"],
                [cmd |-> "HANDSHAKE"],
                [cmd |-> "GET_TREE"],
                [cmd |-> "GET_FILE", path |-> <<"b">>],
                [cmd |-> "SAVE_FILE", path |-> <<"a">>, data |-> "y"],
                [cmd |-> "WRITE"],
                [cmd |-> "BOGUS"] },
        i \in RequestIds }

CmdRequestIdMsgs ==
    { m @@ [requestId |-> i] :
        m \in { [cmd |-> "PING", guestEmail |-> <<"o", "@", "x">>, authHash |-> "M"],
                [cmd |-> "HANDSHAKE"],
                [cmd |-> "FILE_LIST"],
                [cmd |-> "GET_FILE", path |-> <<"b">>],
                [cmd |-> "FILE_WRITE", path |-> <<"a">>, data |-> "y"],
                [cmd |-> "CREATE"],
                [cmd |-> "BOGUS"] },
        i \in RequestIds }

\* the path-taking commands of processCommand with a path that is not empty
\* and that sanitizePath turns into the empty string
MainEmptyPathMsgs ==
    { [cmd |-> c, path |-> <<"/">>] :
        c \in {"GET_RENDERED_FILE", "GET_FILE", "CREATE_FILE", "CREATE_FOLDER",
               "DELETE_FILE", "OPEN_FILE", "RENAME_FILE"} }
    \cup { [cmd |-> "SAVE_FILE", path |-> <<"/">>, data |-> "y"],
           [cmd |-> "RENAME_FILE", path |-> <<"/">>, newPath |-> <<"b">>] }

MainMsgs == HandshakeMsgs \cup MainCommandMsgs \cup MainRequestIdMsgs \cup MainEmptyPathMsgs
CmdMsgs == HandshakeMsgs \cup CmdCommandMsgs \cup CmdRequestIdMsgs

\* What the collaborators (vault, renderer, workspace) do during one handler
\* run: ioFail - the vault mutation rejects; renderFail - read/render throws;
\* plugin - OPEN_FILE's view capture: no plugin file, captured, or fallback;
\* removed - the entry is removed from the vault (in Obsidian, or by the
\* handler of another message) while OPEN_FILE awaits the view.
ExtDefault == [ioFail |-> FALSE, renderFail |-> FALSE, plugin |-> "none", removed |-> FALSE]

ExtFor(msg) ==
    IF msg.cmd \in {"GET_RENDERED_FILE", "CREATE_FILE"}
    THEN { [ioFail |-> i, renderFail |-> r, plugin |-> "none", removed |-> FALSE] :
             i, r \in BOOLEAN }
    ELSE IF msg.cmd = "OPEN_FILE"
    THEN { [ioFail |-> FALSE, renderFail |-> FALSE, plugin |-> x, removed |-> FALSE] :
             x \in {"none", "captured", "fallback"} }
         \cup { [ioFail |-> FALSE, renderFail |-> FALSE, plugin |-> "fallback",
                 removed |-> TRUE] }
    ELSE IF msg.cmd \in {"SAVE_FILE", "FILE_WRITE", "CREATE_FOLDER", "RENAME_FILE",
                         "DELETE_FILE", "OPEN_DAILY_NOTE", "GET_FILE", "FILE_READ",
                         "SEARCH", "FILE_LIST"}
    THEN { [ioFail |-> i, renderFail |-> FALSE, plugin |-> "none", removed |-> FALSE] :
             i \in BOOLEAN }
    ELSE { ExtDefault }

-----------------------------------------------------------------------------
(* Response envelopes and the texts of the ERROR messages.                 *)

Err(m) == [type |-> "ERROR", message |-> m]
Ok(t) == [type |-> t]
Ack(cmd, ro) == [type |-> IF cmd = "PING" THEN "PONG" ELSE "HANDSHAKE_ACK", readOnly |-> ro]

\* The text of each ERROR message, as the character string the peer receives.
\* A message that ends in interpolated text (a path, a command name) is the
\* literal part of it; the message of a caught exception is external text and
\* is written <error.message>.
MessageText(m) ==
    CASE m = "<error.message>" ->
          <<"<", "e", "r", "r", "o", "r", ".", "m", "e", "s", "s", "a", "g", "e", ">">>
      [] m = "ACCESS_DENIED: Invalid credentials" ->
          <<"A", "C", "C", "E", "S", "S", "_", "D", "E", "N", "I", "E", "D", ":", " ", "I", "n", "v", "a", "l", "i", "d", " ", "c", "r", "e", "d", "e", "n", "t", "i", "a", "l", "s">>
      [] m = "ACCESS_DENIED: Invalid credentials or not authorized" ->
          <<"A", "C", "C", "E", "S", "S", "_", "D", "E", "N", "I", "E", "D", ":", " ", "I", "n", "v", "a", "l", "i", "d", " ", "c", "r", "e", "d", "e", "n", "t", "i", "a", "l", "s", " ", "o", "r", " ", "n", "o", "t", " ", "a", "u", "t", "h", "o", "r", "i", "z", "e", "d">>
      [] m = "ACCESS_DENIED: Invalid password." ->
          <<"A", "C", "C", "E", "S", "S", "_", "D", "E", "N", "I", "E", "D", ":", " ", "I", "n", "v", "a", "l", "i", "d", " ", "p", "a", "s", "s", "w", "o", "r", "d", ".">>
      [] m = "ACCESS_DENIED: Not authorized" ->
          <<"A", "C", "C", "E", "S", "S", "_", "D", "E", "N", "I", "E", "D", ":", " ", "N", "o", "t", " ", "a", "u", "t", "h", "o", "r", "i", "z", "e", "d">>
      [] m = "Could not create" ->
          <<"C", "o", "u", "l", "d", " ", "n", "o", "t", " ", "c", "r", "e", "a", "t", "e">>
      [] m = "Could not create. Ensure folder exists." ->
          <<"C", "o", "u", "l", "d", " ", "n", "o", "t", " ", "c", "r", "e", "a", "t", "e", ".", " ", "E", "n", "s", "u", "r", "e", " ", "f", "o", "l", "d", "e", "r", " ", "e", "x", "i", "s", "t", "s", ".">>
      [] m = "Daily Notes plugin is not enabled in Obsidian" ->
          <<"D", "a", "i", "l", "y", " ", "N", "o", "t", "e", "s", " ", "p", "l", "u", "g", "i", "n", " ", "i", "s", " ", "n", "o", "t", " ", "e", "n", "a", "b", "l", "e", "d", " ", "i", "n", " ", "O", "b", "s", "i", "d", "i", "a", "n">>
      [] m = "Failed to list files" ->
          <<"F", "a", "i", "l", "e", "d", " ", "t", "o", " ", "l", "i", "s", "t", " ", "f", "i", "l", "e", "s">>
      [] m = "Failed to read file" ->
          <<"F", "a", "i", "l", "e", "d", " ", "t", "o", " ", "r", "e", "a", "d", " ", "f", "i", "l", "e">>
      [] m = "Failed to read file: " ->
          <<"F", "a", "i", "l", "e", "d", " ", "t", "o", " ", "r", "e", "a", "d", " ", "f", "i", "l", "e", ":", " ">>
      [] m = "Failed to write file" ->
          <<"F", "a", "i", "l", "e", "d", " ", "t", "o", " ", "w", "r", "i", "t", "e", " ", "f", "i", "l", "e">>
      [] m = "File already exists" ->
          <<"F", "i", "l", "e", " ", "a", "l", "r", "e", "a", "d", "y", " ", "e", "x", "i", "s", "t", "s">>
      [] m = "File not found" ->
          <<"F", "i", "l", "e", " ", "n", "o", "t", " ", "f", "o", "u", "n", "d">>
      [] m = "Folder already exists" ->
          <<"F", "o", "l", "d", "e", "r", " ", "a", "l", "r", "e", "a", "d", "y", " ", "e", "x", "i", "s", "t", "s">>
      [] m = "Invalid path" ->
          <<"I", "n", "v", "a", "l", "i", "d", " ", "p", "a", "t", "h">>
      [] m = "READ-ONLY MODE: Editing is disabled" ->
          <<"R", "E", "A", "D", "-", "O", "N", "L", "Y", " ", "M", "O", "D", "E", ":", " ", "E", "d", "i", "t", "i", "n", "g", " ", "i", "s", " ", "d", "i", "s", "a", "b", "l", "e", "d">>
      [] m = "READ_ONLY_MODE: Editing is disabled" ->
          <<"R", "E", "A", "D", "_", "O", "N", "L", "Y", "_", "M", "O", "D", "E", ":", " ", "E", "d", "i", "t", "i", "n", "g", " ", "i", "s", " ", "d", "i", "s", "a", "b", "l", "e", "d">>
      [] m = "Rendering failed: " ->
          <<"R", "e", "n", "d", "e", "r", "i", "n", "g", " ", "f", "a", "i", "l", "e", "d", ":", " ">>
      [] m = "Search failed" ->
          <<"S", "e", "a", "r", "c", "h", " ", "f", "a", "i", "l", "e", "d">>
      [] m = "Unauthenticated" ->
          <<"U", "n", "a", "u", "t", "h", "e", "n", "t", "i", "c", "a", "t", "e", "d">>
      [] m = "Unknown command: " ->
          <<"U", "n", "k", "n", "o", "w", "n", " ", "c", "o", "m", "m", "a", "n", "d", ":", " ">>

-----------------------------------------------------------------------------
(* The vault (external collaborator), by the calls the handlers make.      *)

File(d) == [kind |-> "file", data |-> d]
Folder == [kind |-> "folder", data |-> ""]

\* vault.getAbstractFileByPath(p) is non-null
Exists(v, p) == p \in DOMAIN v

\* vault.create(p, '')
VaultCreate(v, p) == (p :> File("")) @@ v
\* vault.createFolder(p)
VaultCreateFolder(v, p) == (p :> Folder) @@ v
\* vault.modify(file, data)
VaultModify(v, p, d) == [v EXCEPT ![p] = File(d)]
\* vault.trash(file, true)
VaultTrash(v, p) == [q \in DOMAIN v \ {p} |-> v[q]]
\* fileManager.renameFile(file, newPath)
VaultRename(v, p, n) == (n :> v[p]) @@ [q \in DOMAIN v \ {p} |-> v[q]]

\* the path of today's daily note
DailyNotePath == <<"b">>

InitVault == (<<"a">> :> File(""))

-----------------------------------------------------------------------------
(* Handshake resolution.                                                   *)

Granted(ro, id) ==
    [accessGranted |-> TRUE, isReadOnly |-> ro, userIdentifier |-> id, message |-> ""]
Denied(m) ==
    [accessGranted |-> FALSE, isReadOnly |-> FALSE, userIdentifier |-> <<>>, message |-> m]

\* the claimed identity is the owner's: settings.userEmail is set and equals
\* guestEmail.toLowerCase().trim() after toLowerCase().trim()
IsOwnerEmail(st, msg) ==
    /\ st.userEmail # <<>>
    /\ trim(toLowerCase(msg.guestEmail)) = trim(toLowerCase(st.userEmail))

OwnerHashMatches_atLoad(st, msg) == msg.authHash = SettingsFull.masterPasswordHash

\* settings.masterPasswordHash && msg.authHash === settings.masterPasswordHash,
\* read from the settings object when the handshake is processed
OwnerHashMatches(st, msg) ==
    st.masterPasswordHash # "" /\ msg.authHash = st.masterPasswordHash

\* answerCall, the PING/HANDSHAKE branch of peer.on('data'): owner only.
answerCallAuth(st, msg) ==
    IF TruthySeq(msg, "guestEmail") /\ TruthyStr(msg, "authHash") /\ IsOwnerEmail(st, msg)
    THEN IF OwnerHashMatches(st, msg)
         THEN Granted(FALSE, st.userEmail)
         ELSE Denied("ACCESS_DENIED: Invalid password.")
    ELSE Denied("ACCESS_DENIED: Invalid credentials or not authorized")

\* guestList.find(g => g.email === userEmail): index of the first match, 0 if none
FindGuest(list, userEmail) ==
    LET hits == { i \in 1..Len(list) : list[i].email = userEmail }
    IN  IF hits = {} THEN 0 ELSE CHOOSE i \in hits : \A j \in hits : i <= j

\* the guest branch of handleAuth
guestAuth(st, msg, userEmail) ==
    LET i == FindGuest(st.guestList, userEmail)
    IN  IF i = 0 THEN Denied("ACCESS_DENIED: Not authorized")
        ELSE IF st.guestList[i].passHash # msg.authHash
        THEN Denied("ACCESS_DENIED: Invalid password.")
        ELSE Granted(st.guestList[i].mode = "ro", userEmail)

ownerAuth_fallthrough(st, msg) ==
    IF OwnerHashMatches(st, msg)
    THEN Granted(FALSE, st.userEmail)
    ELSE guestAuth(st, msg, trim(toLowerCase(msg.guestEmail)))

\* the owner branch of handleAuth: the master hash decides, nothing else
ownerAuth(st, msg) ==
    IF OwnerHashMatches(st, msg)
    THEN Granted(FALSE, st.userEmail)
    ELSE Denied("ACCESS_DENIED: Invalid password.")

cmdDefaultDenial_readOnlyGuest == Granted(TRUE, <<"g", "u", "e", "s", "t">>)

\* the final else of handleAuth: accessGranted was never set
cmdDefaultDenial == Denied("ACCESS_DENIED: Invalid credentials")

\* handleAuth of the commands module
handleAuth(st, msg) ==
    IF TruthySeq(msg, "guestEmail") /\ TruthyStr(msg, "authHash")
    THEN IF IsOwnerEmail(st, msg)
         THEN ownerAuth(st, msg)
         ELSE IF Len(st.guestList) > 0
              THEN guestAuth(st, msg, trim(toLowerCase(msg.guestEmail)))
              ELSE cmdDefaultDenial
    ELSE cmdDefaultDenial

-----------------------------------------------------------------------------
(* Command processing. A result is the vault afterwards, the responses     *)
(* handed to the send callback in order, and the vault mutations made.     *)

R(v, out, ops) == [vault |-> v, out |-> out, ops |-> ops]
Op(name, p) == [op |-> name, path |-> p]

\* vault.read(file) / rendering throws: the renderer fails or the entry is a folder
ReadThrows(v, p, ext) == ext.renderFail \/ v[p].kind = "folder"

\* processCommand, GET_RENDERED_FILE (main.js); okType is the type under which
\* the caller's callback forwards RENDERED_FILE
pcGetRenderedFile(path, v, ext, okType) ==
    LET safePath == sanitizePath(path)
    IN  IF safePath = <<>> THEN R(v, <<Err("Invalid path")>>, <<>>)
        ELSE IF ~Exists(v, safePath) /\ ext.ioFail
        THEN R(v, <<Err("Could not create. Ensure folder exists.")>>, <<>>)
        ELSE LET created == ~Exists(v, safePath)
                 v1 == IF created THEN VaultCreate(v, safePath) ELSE v
                 ops == IF created THEN <<Op("create", safePath)>> ELSE <<>>
             IN  IF ReadThrows(v1, safePath, ext)
                 THEN R(v1, <<Err("Rendering failed: ")>>, ops)
                 ELSE R(v1, <<Ok(okType)>>, ops)

pcGetFile(msg, v, ext) ==
    LET safePath == sanitizePath(Arg(msg, "path"))
    IN  IF safePath = <<>> THEN R(v, <<Err("Invalid path")>>, <<>>)
        ELSE IF ~Exists(v, safePath) THEN R(v, <<Err("File not found")>>, <<>>)
        ELSE IF ext.ioFail \/ v[safePath].kind = "folder"
        THEN R(v, <<Err("<error.message>")>>, <<>>)
        ELSE R(v, <<Ok("FILE")>>, <<>>)

pcSaveFile_unchecked(msg, v, ext) ==
    LET safePath == sanitizePath(Arg(msg, "path"))
    IN  IF safePath = <<>> THEN R(v, <<Err("Invalid path")>>, <<>>)
        ELSE IF ext.ioFail THEN R(v, <<Err("<error.message>")>>, <<>>)
        ELSE R((safePath :> File(msg.data)) @@ v, <<Ok("SAVED")>>,
               <<Op("modify", safePath)>>)

pcSaveFile(msg, v, ext) ==
    LET safePath == sanitizePath(Arg(msg, "path"))
    IN  IF safePath = <<>> THEN R(v, <<Err("Invalid path")>>, <<>>)
        ELSE IF ~Exists(v, safePath) THEN R(v, <<Err("File not found")>>, <<>>)
        ELSE IF ext.ioFail \/ v[safePath].kind = "folder"
        THEN R(v, <<Err("<error.message>")>>, <<>>)
        ELSE R(VaultModify(v, safePath, msg.data), <<Ok("SAVED")>>,
               <<Op("modify", safePath)>>)

pcCreateFile(msg, v, ext) ==
    LET safePath == sanitizePath(Arg(msg, "path"))
    IN  IF safePath = <<>> THEN R(v, <<Err("Invalid path")>>, <<>>)
        ELSE IF Exists(v, safePath) THEN R(v, <<Err("File already exists")>>, <<>>)
        ELSE IF ext.ioFail THEN R(v, <<Err("<error.message>")>>, <<>>)
        ELSE LET r == pcGetRenderedFile(safePath, VaultCreate(v, safePath), ext,
                                        "RENDERED_FILE")
             IN  R(r.vault, r.out, <<Op("create", safePath)>> \o r.ops)

pcCreateFolder(msg, v, ext) ==
    LET safePath == sanitizePath(Arg(msg, "path"))
    IN  IF safePath = <<>> THEN R(v, <<Err("Invalid path")>>, <<>>)
        ELSE IF Exists(v, safePath) THEN R(v, <<Err("Folder already exists")>>, <<>>)
        ELSE IF ext.ioFail THEN R(v, <<Err("<error.message>")>>, <<>>)
        ELSE R(VaultCreateFolder(v, safePath), <<Ok("SAVED")>>,
               <<Op("createFolder", safePath)>>)

pcRenameFile_uncaught(msg, v, ext) ==
    IF ~Has(msg, "newPath") THEN R(v, <<>>, <<>>)
    ELSE LET safePath == sanitizePath(Arg(msg, "path"))
             safeNewPath == sanitizePath(msg.newPath)
         IN  IF safePath = <<>> \/ safeNewPath = <<>>
             THEN R(v, <<Err("Invalid path")>>, <<>>)
             ELSE IF ~Exists(v, safePath) THEN R(v, <<Err("File not found")>>, <<>>)
             ELSE IF ext.ioFail \/ Exists(v, safeNewPath) THEN R(v, <<>>, <<>>)
             ELSE R(VaultRename(v, safePath, safeNewPath), <<Ok("SAVED")>>,
                    <<Op("rename", safePath)>>)

\* msg.data.newPath throws a TypeError when msg.data is absent; the catch of
\* processCommand turns it, and a rejected renameFile, into an ERROR
pcRenameFile(msg, v, ext) ==
    IF ~Has(msg, "newPath") THEN R(v, <<Err("<error.message>")>>, <<>>)
    ELSE LET safePath == sanitizePath(Arg(msg, "path"))
             safeNewPath == sanitizePath(msg.newPath)
         IN  IF safePath = <<>> \/ safeNewPath = <<>>
             THEN R(v, <<Err("Invalid path")>>, <<>>)
             ELSE IF ~Exists(v, safePath) THEN R(v, <<Err("File not found")>>, <<>>)
             ELSE IF ext.ioFail \/ Exists(v, safeNewPath)
             THEN R(v, <<Err("<error.message>")>>, <<>>)
             ELSE R(VaultRename(v, safePath, safeNewPath), <<Ok("SAVED")>>,
                    <<Op("rename", safePath)>>)

pcDeleteFile_unchecked(msg, v, ext) ==
    LET safePath == sanitizePath(Arg(msg, "path"))
    IN  IF ~Exists(v, safePath) THEN R(v, <<Err("File not found")>>, <<>>)
        ELSE IF ext.ioFail THEN R(v, <<Err("<error.message>")>>, <<>>)
        ELSE R(VaultTrash(v, safePath), <<Ok("SAVED")>>, <<Op("trash", safePath)>>)

pcDeleteFile(msg, v, ext) ==
    LET safePath == sanitizePath(Arg(msg, "path"))
    IN  IF safePath = <<>> THEN R(v, <<Err("Invalid path")>>, <<>>)
        ELSE IF ~Exists(v, safePath) THEN R(v, <<Err("File not found")>>, <<>>)
        ELSE IF ext.ioFail THEN R(v, <<Err("<error.message>")>>, <<>>)
        ELSE R(VaultTrash(v, safePath), <<Ok("SAVED")>>, <<Op("trash", safePath)>>)

\* the vault OPEN_FILE finds after `await newLeaf.openFile(file)` and the
\* waits of the view capture: other handlers and Obsidian ran meanwhile
vaultAfterAwait(v, p, ext) == IF ext.removed THEN VaultTrash(v, p) ELSE v

pcOpenFile(msg, v, ext) ==
    LET safePath == sanitizePath(Arg(msg, "path"))
    IN  IF safePath = <<>> THEN R(v, <<Err("Invalid path")>>, <<>>)
        ELSE IF ~Exists(v, safePath) THEN R(v, <<Err("File not found")>>, <<>>)
        ELSE IF ext.plugin = "captured" THEN R(v, <<Ok("OPEN_FILE")>>, <<>>)
        ELSE IF ext.plugin = "fallback"
        THEN pcGetRenderedFile(safePath, vaultAfterAwait(v, safePath, ext), ext,
                               "OPEN_FILE")
        ELSE pcGetRenderedFile(safePath, v, ext, "RENDERED_FILE")

\* executeCommandById('daily-notes') creates today's note when it is missing
pcOpenDailyNote(msg, v, ext) ==
    IF ext.ioFail
    THEN R(v, <<Err("Daily Notes plugin is not enabled in Obsidian")>>, <<>>)
    ELSE IF Exists(v, DailyNotePath) THEN R(v, <<Ok("OPEN_DAILY_NOTE")>>, <<>>)
    ELSE R(VaultCreate(v, DailyNotePath), <<Ok("OPEN_DAILY_NOTE")>>,
           <<Op("create", DailyNotePath)>>)

\* NoteRelay.processCommand (main.js, first revision)
processCommand(msg, v, ext) ==
    CASE msg.cmd \in HandshakeCmds -> R(v, <<Ack(msg.cmd, FALSE)>>, <<>>)
      [] msg.cmd = "GET_TREE" -> R(v, <<Ok("TREE")>>, <<>>)
      [] msg.cmd = "GET_RENDERED_FILE" ->
            pcGetRenderedFile(Arg(msg, "path"), v, ext, "RENDERED_FILE")
      [] msg.cmd = "GET_FILE" -> pcGetFile(msg, v, ext)
      [] msg.cmd = "SAVE_FILE" -> pcSaveFile(msg, v, ext)
      [] msg.cmd = "CREATE_FILE" -> pcCreateFile(msg, v, ext)
      [] msg.cmd = "CREATE_FOLDER" -> pcCreateFolder(msg, v, ext)
      [] msg.cmd = "RENAME_FILE" -> pcRenameFile(msg, v, ext)
      [] msg.cmd = "DELETE_FILE" -> pcDeleteFile(msg, v, ext)
      [] msg.cmd = "OPEN_FILE" -> pcOpenFile(msg, v, ext)
      [] msg.cmd = "OPEN_DAILY_NOTE" -> pcOpenDailyNote(msg, v, ext)
      [] OTHER -> R(v, <<>>, <<>>)

-----------------------------------------------------------------------------
(* The commands module (handleCommand and its handlers).                   *)

handleFileRead(msg, v, ext) ==
    LET path == Arg(msg, "path")
        safePath == cmdSanitizePath(path)
    IN  IF cmdPathRejected(path) THEN R(v, <<Err("Invalid path")>>, <<>>)
        ELSE IF ~Exists(v, safePath) THEN R(v, <<Err("File not found")>>, <<>>)
        ELSE IF ext.ioFail \/ v[safePath].kind = "folder"
        THEN R(v, <<Err("Failed to read file: ")>>, <<>>)
        ELSE R(v, <<Ok("FILE_CONTENT")>>, <<>>)

handleGetRenderedFile(msg, v, ext) ==
    LET path == Arg(msg, "path")
        safePath == cmdSanitizePath(path)
    IN  IF cmdPathRejected(path) THEN R(v, <<Err("Invalid path")>>, <<>>)
        ELSE IF ~Exists(v, safePath) /\ ext.ioFail
        THEN R(v, <<Err("Could not create")>>, <<>>)
        ELSE LET created == ~Exists(v, safePath)
                 v1 == IF created THEN VaultCreate(v, safePath) ELSE v
                 ops == IF created THEN <<Op("create", safePath)>> ELSE <<>>
             IN  IF ReadThrows(v1, safePath, ext)
                 THEN R(v1, <<Err("Rendering failed: ")>>, ops)
                 ELSE R(v1, <<Ok("RENDERED_FILE")>>, ops)

handleGetFile(msg, v, ext) ==
    LET path == Arg(msg, "path")
        safePath == cmdSanitizePath(path)
    IN  IF cmdPathRejected(path) THEN R(v, <<Err("Invalid path")>>, <<>>)
        ELSE IF ~Exists(v, safePath) THEN R(v, <<Err("File not found")>>, <<>>)
        ELSE IF ext.ioFail \/ v[safePath].kind = "folder"
        THEN R(v, <<Err("Failed to read file")>>, <<>>)
        ELSE R(v, <<Ok("FILE")>>, <<>>)

handleFileList(msg, v, ext) ==
    IF ext.ioFail THEN R(v, <<Err("Failed to list files")>>, <<>>)
    ELSE R(v, <<Ok("FILE_LIST")>>, <<>>)

handleFileWrite(msg, v, ext) ==
    LET path == Arg(msg, "path")
        safePath == cmdSanitizePath(path)
    IN  IF cmdPathRejected(path) THEN R(v, <<Err("Invalid path")>>, <<>>)
        ELSE IF ~Exists(v, safePath) THEN R(v, <<Err("File not found")>>, <<>>)
        ELSE IF ext.ioFail \/ v[safePath].kind = "folder"
        THEN R(v, <<Err("Failed to write file")>>, <<>>)
        ELSE R(VaultModify(v, safePath, msg.data), <<Ok("FILE_SAVED")>>,
               <<Op("modify", safePath)>>)

\* msg.query.toLowerCase() throws inside the try when query is absent
handleSearch(msg, v, ext) ==
    IF ~Has(msg, "query") \/ ext.ioFail THEN R(v, <<Err("Search failed")>>, <<>>)
    ELSE R(v, <<Ok("SEARCH_RESULTS")>>, <<>>)

\* the switch of handleCommand
cmdRoute(msg, v, ext) ==
    CASE msg.cmd = "FILE_READ" -> handleFileRead(msg, v, ext)
      [] msg.cmd = "FILE_LIST" -> handleFileList(msg, v, ext)
      [] msg.cmd = "FILE_WRITE" -> handleFileWrite(msg, v, ext)
      [] msg.cmd = "SEARCH" -> handleSearch(msg, v, ext)
      [] msg.cmd = "GET_RENDERED_FILE" -> handleGetRenderedFile(msg, v, ext)
      [] msg.cmd = "GET_FILE" -> handleGetFile(msg, v, ext)
      [] OTHER -> R(v, <<Err("Unknown command: ")>>, <<>>)

\* const writeCommands of handleCommand
cmdWriteCommands == {"FILE_WRITE", "CREATE", "DELETE", "RENAME"}

authPeerState_resetOnDenial(peerState, a) ==
    IF a.accessGranted
    THEN [peerState EXCEPT !.isAuthenticated = TRUE,
                           !.isReadOnly = a.isReadOnly,
                           !.userIdentifier = a.userIdentifier]
    ELSE [peerState EXCEPT !.isAuthenticated = FALSE]

\* peerState after handleAuth: written only when access is granted
authPeerState(peerState, a) ==
    IF a.accessGranted
    THEN [peerState EXCEPT !.isAuthenticated = TRUE,
                           !.isReadOnly = a.isReadOnly,
                           !.userIdentifier = a.userIdentifier]
    ELSE peerState

cmdBlocksUnauthenticated_never(peerState) == FALSE

\* if (!peerState.isAuthenticated) { sendCallback('ERROR', ...); return; }
cmdBlocksUnauthenticated(peerState) == ~peerState.isAuthenticated

\* handleCommand: the new peerState, the vault, the responses, the mutations,
\* and whether a command handler was entered
handleCommand(st, msg, v, ext, peerState) ==
    IF msg.cmd \in HandshakeCmds
    THEN LET a == handleAuth(st, msg)
         IN  [peerState |-> authPeerState(peerState, a), vault |-> v,
              out |-> IF a.accessGranted THEN <<Ack(msg.cmd, a.isReadOnly)>>
                      ELSE <<Err(a.message)>>,
              ops |-> <<>>, dispatched |-> FALSE]
    ELSE IF cmdBlocksUnauthenticated(peerState)
    THEN [peerState |-> peerState, vault |-> v, out |-> <<Err("Unauthenticated")>>,
          ops |-> <<>>, dispatched |-> FALSE]
    ELSE IF peerState.isReadOnly /\ msg.cmd \in cmdWriteCommands
    THEN [peerState |-> peerState, vault |-> v,
          out |-> <<Err("READ_ONLY_MODE: Editing is disabled")>>,
          ops |-> <<>>, dispatched |-> FALSE]
    ELSE LET r == cmdRoute(msg, v, ext)
         IN  [peerState |-> peerState, vault |-> r.vault, out |-> r.out,
              ops |-> r.ops, dispatched |-> TRUE]

-----------------------------------------------------------------------------
(* The data handler of answerCall (main.js).                               *)

\* const writeCommands of the data handler
mainWriteCommands == {"CREATE", "WRITE", "DELETE", "RENAME"}

sendChunkedPasses_always(isAuthenticated, type) == TRUE

\* peer.sendChunked's gate: a response is put on the wire iff this holds
sendChunkedPasses(isAuthenticated, type) == isAuthenticated \/ type = "ERROR"

\* the responses of `out` that pass sendChunked
Chunked(isAuthenticated, out) ==
    SelectSeq(out, LAMBDA e : sendChunkedPasses(isAuthenticated, e.type))

\* wrappedSendCallback: the response with msg.requestId added to its meta,
\* which sendChunked spreads into every frame it sends
wrappedSendCallback(msg, e) ==
    IF Has(msg, "requestId") THEN e @@ [requestId |-> msg.requestId] ELSE e

\* closure variables after the handshake branch
mainAuthState(sess, a) ==
    IF a.accessGranted
    THEN [sess EXCEPT !.isAuthenticated = TRUE, !.peerReadOnly = a.isReadOnly]
    ELSE [sess EXCEPT !.destroyTimer = TRUE]

\* if (!isAuthenticated) return;
mainDropsUnauthenticated(sess) == ~sess.isAuthenticated

\* peer.on('data') of answerCall: the session afterwards, the vault, what is
\* sent, the mutations, and whether processCommand was invoked
answerCallData(st, msg, v, ext, sess) ==
    IF msg.cmd \in HandshakeCmds
    THEN LET a == answerCallAuth(st, msg)
         IN  [sess |-> mainAuthState(sess, a), vault |-> v,
              out |-> IF a.accessGranted THEN <<Ack(msg.cmd, a.isReadOnly)>>
                      ELSE <<Err(a.message)>>,
              ops |-> <<>>, dispatched |-> FALSE]
    ELSE IF mainDropsUnauthenticated(sess)
    THEN [sess |-> sess, vault |-> v, out |-> <<>>, ops |-> <<>>, dispatched |-> FALSE]
    ELSE IF sess.peerReadOnly /\ msg.cmd \in mainWriteCommands
    THEN [sess |-> sess, vault |-> v,
          out |-> <<Err("READ-ONLY MODE: Editing is disabled")>>,
          ops |-> <<>>, dispatched |-> FALSE]
    ELSE LET r == processCommand(msg, v, ext)
         IN  [sess |-> sess, vault |-> r.vault,
              out |-> Chunked(sess.isAuthenticated,
                              [i \in 1..Len(r.out) |-> wrappedSendCallback(msg, r.out[i])]),
              ops |-> r.ops, dispatched |-> TRUE]

-----------------------------------------------------------------------------
(* State machine.                                                          *)

NoSession == [state |-> "none"]

\* let isAuthenticated = false; let peerReadOnly = false;
NewMainSession ==
    [state |-> "open", engine |-> "main", isAuthenticated |-> FALSE,
     peerReadOnly |-> FALSE, destroyTimer |-> FALSE]

Unknown == <<"u", "n", "k", "n", "o", "w", "n">>

\* const peerState = { isAuthenticated: false, isReadOnly: false, userIdentifier: 'unknown' }
NewCmdSession ==
    [state |-> "open", engine |-> "cmd", isAuthenticated |-> FALSE,
     isReadOnly |-> FALSE, userIdentifier |-> Unknown]

NoEvent == [event |-> "none"]

\* no sendChunked call and no signaling activity is followed
NoChan == [calls |-> <<>>, wire |-> <<>>]
NoHost == [runs |-> <<>>]

Init ==
    /\ settings \in SettingsSet
    /\ vault = InitVault
    /\ sessions = [s \in 1..MaxSessions |-> NoSession]
    /\ last = NoEvent
    /\ chan = NoChan
    /\ host = NoHost

IsOpen(s, eng) == sessions[s].state = "open" /\ sessions[s].engine = eng

\* an offer arrives on the signaling channel of main.js
answerCall(s) ==
    /\ sessions[s].state = "none"
    /\ sessions' = [sessions EXCEPT ![s] = NewMainSession]
    /\ last' = [event |-> "offer", sid |-> s]
    /\ UNCHANGED <<settings, vault, chan, host>>

\* an offer arrives on the signaling channel of webrtc.js
handleIncomingOffer(s) ==
    /\ sessions[s].state = "none"
    /\ sessions' = [sessions EXCEPT ![s] = NewCmdSession]
    /\ last' = [event |-> "offer", sid |-> s]
    /\ UNCHANGED <<settings, vault, chan, host>>

Observation(s, msg, r) ==
    [event |-> "data", sid |-> s, msg |-> msg, pre |-> sessions[s],
     out |-> r.out, ops |-> r.ops, dispatched |-> r.dispatched,
     changed |-> r.vault # vault]

sessionState_shared(ss, s, sess) ==
    [t \in DOMAIN ss |->
        IF t = s THEN sess
        ELSE IF ss[t].state = "open" /\ ss[t].engine = sess.engine
        THEN [ss[t] EXCEPT !.isAuthenticated = sess.isAuthenticated]
        ELSE ss[t]]

\* the flags a data handler writes are those of its own call of answerCall
\* (let isAuthenticated, let peerReadOnly) or handleIncomingOffer (const
\* peerState): the sessions after the handler of session s has run
sessionState(ss, s, sess) == [ss EXCEPT ![s] = sess]

\* a data event on a session of answerCall, the message being one of msgs
MainDataFrom(s, msgs) ==
    /\ IsOpen(s, "main")
    /\ \E msg \in msgs : \E ext \in ExtFor(msg) :
         LET r == answerCallData(settings, msg, vault, ext, sessions[s])
         IN  /\ sessions' = sessionState(sessions, s, r.sess)
             /\ vault' = r.vault
             /\ last' = Observation(s, msg, r)
    /\ UNCHANGED <<settings, chan, host>>

\* a data event on a session of handleIncomingOffer, the message being one of msgs
CmdDataFrom(s, msgs) ==
    /\ IsOpen(s, "cmd")
    /\ \E msg \in msgs : \E ext \in ExtFor(msg) :
         LET r == handleCommand(settings, msg, vault, ext, sessions[s])
         IN  /\ sessions' = sessionState(sessions, s, r.peerState)
             /\ vault' = r.vault
             /\ last' = Observation(s, msg, r)
    /\ UNCHANGED <<settings, chan, host>>

MainData(s) == MainDataFrom(s, MainMsgs)

CmdData(s) == CmdDataFrom(s, CmdMsgs)

\* setTimeout(() => peer.destroy(), 1000) fires
DestroyTimer(s) ==
    /\ sessions[s].state \in {"open", "closed"}
    /\ sessions[s].engine = "main"
    /\ sessions[s].destroyTimer
    /\ sessions' = [sessions EXCEPT ![s].state = "closed", ![s].destroyTimer = FALSE]
    /\ last' = [event |-> "destroy", sid |-> s]
    /\ UNCHANGED <<settings, vault, chan, host>>

\* the transport closes or fails (peer 'close' / 'error')
PeerClose(s) ==
    /\ sessions[s].state = "open"
    /\ sessions' = [sessions EXCEPT ![s].state = "closed"]
    /\ last' = [event |-> "close", sid |-> s]
    /\ UNCHANGED <<settings, vault, chan, host>>

Next ==
    \/ \E s \in DOMAIN sessions : answerCall(s)
    \/ \E s \in DOMAIN sessions : handleIncomingOffer(s)
    \/ \E s \in DOMAIN sessions : MainData(s)
    \/ \E s \in DOMAIN sessions : CmdData(s)
    \/ \E s \in DOMAIN sessions : DestroyTimer(s)
    \/ \E s \in DOMAIN sessions : PeerClose(s)

Spec == Init /\ [][Next]_vars

\* The same machine started from any value of the closure variables of an
\* answerCall session: for statements about the data handler as a function of
\* isAuthenticated and peerReadOnly.
InitGate ==
    /\ settings = SettingsFull
    /\ vault = InitVault
    /\ sessions \in [1..MaxSessions ->
                       {NoSession} \cup
                       { [NewMainSession EXCEPT !.isAuthenticated = a, !.peerReadOnly = r] :
                           a, r \in BOOLEAN }]
    /\ last = NoEvent
    /\ chan = NoChan
    /\ host = NoHost

SpecGate == InitGate /\ [][Next]_vars

\* The machine under the one scheduling guarantee the host has: a timer that
\* was set (setTimeout) fires. Peers are free to stay silent and to stay
\* connected, so no other action is fair.
InitLive ==
    /\ settings = SettingsFull
    /\ vault = InitVault
    /\ sessions = [s \in 1..MaxSessions |-> NoSession]
    /\ last = NoEvent
    /\ chan = NoChan
    /\ host = NoHost

TimersFire == \A s \in 1..MaxSessions : WF_vars(DestroyTimer(s))

SpecLive == InitLive /\ [][Next]_vars /\ TimersFire

-----------------------------------------------------------------------------
(* peer.sendChunked of answerCall: the calls of one peer and the frames     *)
(* they hand to peer.safeSend, in order. A payload is the string            *)
(* JSON.stringify(data); a chunk is the piece of it that slice returns,     *)
(* written as the call it belongs to and the positions it spans.            *)

CHUNK_SIZE == 16384

\* Number of sendChunked calls of one peer that are followed.
MaxCalls == 2

\* fullString.length for the data of a response: JSON.stringify of an object
\* or of a string has at least two characters
PayloadSizes == {2, 16384, 16385, 32769}

\* the lengths a string can have, the empty string included
AnySizes == PayloadSizes \cup {0}

\* the type a response is sent under
ResponseTypes == {"ERROR", "FILE"}

\* the meta of a call: as wrappedSendCallback passes it
MetaSet == {NoField} \cup {[requestId |-> i] : i \in RequestIds}

IdleCall == [state |-> "idle"]

Min(a, b) == IF a < b THEN a ELSE b

\* fullString.slice(offset, offset + CHUNK_SIZE) of the payload of call c
slice(c, offset, totalBytes) ==
    [of |-> c, from |-> offset, to |-> Min(offset + CHUNK_SIZE, totalBytes)]

frameEnd_strict(offset, totalBytes) == offset > totalBytes

\* end: offset >= totalBytes, offset being the one already advanced
frameEnd(offset, totalBytes) == offset >= totalBytes

\* { type: 'PART', cat: type, chunk, end: offset >= totalBytes, ...meta }
Frame(c, call) ==
    [type |-> "PART", cat |-> call.type,
     chunk |-> slice(c, call.offset, call.totalBytes),
     end |-> frameEnd(call.offset + CHUNK_SIZE, call.totalBytes)] @@ call.meta

\* a call of peer.sendChunked(type, data, meta) up to its loop: the gate, then
\* totalBytes and offset = 0; the loop is not entered when offset < totalBytes
\* is false
sendChunked(c) ==
    /\ chan.calls[c].state = "idle"
    /\ \E type \in ResponseTypes, n \in chan.sizes, meta \in MetaSet :
         LET call == [type |-> type, meta |-> meta, totalBytes |-> n, offset |-> 0,
                      authenticated |-> chan.isAuthenticated]
         IN  chan' = [chan EXCEPT !.calls[c] =
                 IF ~sendChunkedPasses(chan.isAuthenticated, type)
                 THEN call @@ [state |-> "returned"]
                 ELSE call @@ [state |-> IF 0 < n THEN "sending" ELSE "done"]]
    /\ UNCHANGED <<settings, vault, sessions, last, host>>

\* one round of the while loop: a frame is sent, offset advances, and the
\* call waits 5 ms; other calls run meanwhile
sendChunkedLoop(c) ==
    /\ chan.calls[c].state = "sending"
    /\ LET call == chan.calls[c]
           offset == call.offset + CHUNK_SIZE
       IN  chan' = [chan EXCEPT
                      !.wire = Append(@, Frame(c, call)),
                      !.calls[c].offset = offset,
                      !.calls[c].state =
                          IF offset < call.totalBytes THEN "sending" ELSE "done"]
    /\ UNCHANGED <<settings, vault, sessions, last, host>>

\* the handshake of the peer is granted: isAuthenticated = true
ChanHandshake ==
    /\ DOMAIN chan.calls # {}
    /\ ~chan.isAuthenticated
    /\ chan' = [chan EXCEPT !.isAuthenticated = TRUE]
    /\ UNCHANGED <<settings, vault, sessions, last, host>>

NextChunk ==
    \/ \E c \in DOMAIN chan.calls : sendChunked(c)
    \/ \E c \in DOMAIN chan.calls : sendChunkedLoop(c)
    \/ ChanHandshake

ChanInit(sizes) ==
    /\ settings = SettingsFull
    /\ vault = InitVault
    /\ sessions = [s \in 1..MaxSessions |-> NoSession]
    /\ last = NoEvent
    /\ host = NoHost
    /\ \E a \in BOOLEAN :
         chan = [isAuthenticated |-> a, sizes |-> sizes,
                 calls |-> [c \in 1..MaxCalls |-> IdleCall], wire |-> <<>>]

\* sendChunked called with the payloads its callers produce
InitChunk == ChanInit(PayloadSizes)

SpecChunk == InitChunk /\ [][NextChunk]_vars

\* sendChunked as a function of any string, for statements about the empty one
InitChunkAny == ChanInit(AnySizes)

SpecChunkAny == InitChunkAny /\ [][NextChunk]_vars

\* The receiving side, as the protocol describes it: one reassembly buffer per
\* (category, correlation id); a frame's chunk is appended to the buffer of its
\* key, and a frame marked end delivers the buffer and empties it.
NoRequestId == 0 - 1

Key(f) == <<f.cat, IF Has(f, "requestId") THEN f.requestId ELSE NoRequestId>>

Keys == ResponseTypes \X ({NoRequestId} \cup RequestIds)

RECURSIVE Reassemble(_, _, _)
Reassemble(wire, bufs, delivered) ==
    IF wire = <<>> THEN [bufs |-> bufs, delivered |-> delivered]
    ELSE LET f == Head(wire)
             b == Append(bufs[Key(f)], f.chunk)
         IN  IF f.end
             THEN Reassemble(Tail(wire), [bufs EXCEPT ![Key(f)] = <<>>],
                             Append(delivered, b))
             ELSE Reassemble(Tail(wire), [bufs EXCEPT ![Key(f)] = b], delivered)

Received == Reassemble(chan.wire, [k \in Keys |-> <<>>], <<>>)

-----------------------------------------------------------------------------
(* The signaling registration of the plugin: connectSignaling and its       *)
(* awaits, disconnectSignaling, the heartbeat and the wake handler.         *)
(* Supabase clients are numbered in the order createClient returns them;    *)
(* subs counts, per client, the channels that are subscribed.               *)

\* Number of connectSignaling invocations that can be in flight at once.
MaxRuns == 2
\* Number of clients createClient returns in one run of the model.
MaxClients == 3
\* Number of heartbeat requests that can be awaiting their response at once.
MaxBeats == 1
\* The clock, in minutes, runs from 0 to MaxTime.
MaxTime == 7

\* timeSinceLastHeartbeat > 6 * 60 * 1000, in minutes
StaleMinutes == 6

Clients == 1..MaxClients

\* clearInterval(this.heartbeatInterval): the timer behind the handle stops
ClearInterval(h) ==
    IF h.heartbeatInterval = "live" THEN [h EXCEPT !.timers = @ - 1] ELSE h

\* disconnectSignaling
disconnectSignaling(h) ==
    LET h1 == IF h.heartbeatInterval # "null"
              THEN [ClearInterval(h) EXCEPT !.heartbeatInterval = "null"]
              ELSE h
        h2 == IF h1.channel # 0
              THEN [h1 EXCEPT !.subs[h1.channel] = IF @ > 0 THEN @ - 1 ELSE 0,
                              !.channel = 0]
              ELSE h1
        h3 == IF h2.supabase # 0
              THEN [h2 EXCEPT !.subs[h2.supabase] = 0, !.supabase = 0]
              ELSE h2
    IN  [h3 EXCEPT !.signalId = FALSE, !.isConnected = FALSE]

\* this.channel = this.supabase.channel('host-channel').on(...).subscribe():
\* a TypeError ends the run when this.supabase is null
csSubscribe(h, r) ==
    IF h.supabase = 0 THEN [h EXCEPT !.runs[r] = "idle"]
    ELSE [h EXCEPT !.subs[h.supabase] = @ + 1, !.channel = h.supabase,
                   !.runs[r] = "idle"]

\* this.supabase = createClient(...), then registration when email and
\* master password are set, else the subscription right away
csCreateClient(h, r) ==
    LET h1 == [h EXCEPT !.supabase = h.nextClient + 1, !.nextClient = @ + 1]
    IN  IF h1.email /\ h1.mph THEN [h1 EXCEPT !.runs[r] = "register"]
        ELSE csSubscribe(h1, r)

\* connectSignaling up to its first await; stopped (history) records that
\* the last request made of the plugin was a disconnect and that it ran while
\* an invocation of connectSignaling was suspended
connectSignaling(h, r) ==
    IF ~h.email THEN h
    ELSE LET h1 == [disconnectSignaling(h) EXCEPT !.stopped = FALSE]
         IN  IF ~h1.credsLoaded THEN [h1 EXCEPT !.runs[r] = "init"]
             ELSE csCreateClient(h1, r)

\* startHeartbeat: the old timer is cleared, sendHeartbeat() is called at
\* once (its fetch starts when email and signalId are set), a new timer runs
startHeartbeat(h) ==
    LET h1 == IF h.heartbeatInterval # "null" THEN ClearInterval(h) ELSE h
        h2 == IF h1.email /\ h1.signalId /\ h1.beats < MaxBeats
              THEN [h1 EXCEPT !.beats = @ + 1] ELSE h1
    IN  [h2 EXCEPT !.heartbeatInterval = "live", !.timers = @ + 1]

heartbeatTimestamp_onSuccess(h, outcome) ==
    IF outcome = "ok" THEN h.now ELSE h.lastHeartbeatTime

\* this.lastHeartbeatTime = Date.now(), after the response and in the catch
heartbeatTimestamp(h, outcome) == h.now

heartbeatFatal_anyFailure(outcome) == outcome # "ok"

\* response.status === 401 || response.status === 403: the kill switch
heartbeatFatal(outcome) == outcome = "auth"

\* a run slot no invocation occupies
FreeRun(h, r) == h.runs[r] = "idle" /\ \A q \in 1..(r - 1) : h.runs[q] # "idle"

\* createClient can still return a new client
CanCreate(h) == h.nextClient < MaxClients

HostEvent(h, e) == [h EXCEPT !.last = e]

HostUnchanged == UNCHANGED <<settings, vault, sessions, last, chan>>

\* setTimeout(() => this.connectSignaling(), 1000) of onload fires
LoadTimer ==
    /\ DOMAIN host.runs # {}
    /\ host.loadTimer
    /\ CanCreate(host)
    /\ \E r \in DOMAIN host.runs :
         /\ FreeRun(host, r)
         /\ host' = HostEvent([connectSignaling(host, r) EXCEPT !.loadTimer = FALSE],
                              [event |-> "connect"])
    /\ HostUnchanged

\* the response of the plugin-init request arrives (ok) or not (~ok)
InitResponse(r) ==
    /\ host.runs[r] = "init"
    /\ CanCreate(host)
    /\ \E ok \in BOOLEAN :
         host' = HostEvent(IF ok THEN csCreateClient([host EXCEPT !.credsLoaded = TRUE], r)
                           ELSE [host EXCEPT !.runs[r] = "idle"],
                           [event |-> "init"])
    /\ HostUnchanged

\* the response of the register request arrives: on success signalId is set,
\* the heartbeat starts and the TURN credentials are fetched; else the
\* subscription follows with ID 'host'
RegisterResponse(r) ==
    /\ host.runs[r] = "register"
    /\ \E ok \in BOOLEAN :
         host' = HostEvent(IF ok
                           THEN [startHeartbeat([host EXCEPT !.signalId = TRUE,
                                                             !.isConnected = TRUE])
                                   EXCEPT !.runs[r] = "turn"]
                           ELSE csSubscribe(host, r),
                           [event |-> "register"])
    /\ HostUnchanged

\* fetchTurnCredentials returns; the subscription follows
TurnResponse(r) ==
    /\ host.runs[r] = "turn"
    /\ host' = HostEvent(csSubscribe(host, r), [event |-> "turn"])
    /\ HostUnchanged

\* visibilitychange with the document visible: wakeHandler and
\* checkConnectionHealth
Wake ==
    /\ DOMAIN host.runs # {}
    /\ CanCreate(host)
    /\ \E r \in DOMAIN host.runs :
         /\ FreeRun(host, r)
         /\ LET stale == host.now - host.lastHeartbeatTime > StaleMinutes
                reconnect == host.email /\ host.supabase # 0 /\ stale
            IN  host' = HostEvent(IF reconnect THEN connectSignaling(host, r) ELSE host,
                                  [event |-> "wake", email |-> host.email, stale |-> stale,
                                   settled |-> \A q \in DOMAIN host.runs : host.runs[q] = "idle",
                                   reconnected |-> reconnect])
    /\ HostUnchanged

\* the Relay Control button: Disconnect when isConnected, else Connect
RelayButton ==
    /\ DOMAIN host.runs # {}
    /\ host.email /\ host.mph
    /\ CanCreate(host)
    /\ \E r \in DOMAIN host.runs :
         /\ FreeRun(host, r)
         /\ host' = HostEvent(IF host.isConnected
                              THEN [disconnectSignaling(host) EXCEPT
                                      !.stopped = \E q \in DOMAIN host.runs :
                                                      host.runs[q] # "idle"]
                              ELSE connectSignaling(host, r),
                              [event |-> "button"])
    /\ HostUnchanged

\* the heartbeat timer fires: sendHeartbeat starts its request
HeartbeatTick ==
    /\ DOMAIN host.runs # {}
    /\ host.timers > 0
    /\ host.email /\ host.signalId
    /\ host.beats < MaxBeats
    /\ host' = HostEvent([host EXCEPT !.beats = @ + 1], [event |-> "tick"])
    /\ HostUnchanged

\* a heartbeat request ends: 2xx, another status, 401/403 or a network error
HeartbeatResponse ==
    /\ DOMAIN host.runs # {}
    /\ host.beats > 0
    /\ \E outcome \in {"ok", "server", "auth", "network"} :
         LET h1 == [host EXCEPT !.beats = @ - 1,
                                !.lastHeartbeatTime = heartbeatTimestamp(host, outcome)]
             h2 == IF heartbeatFatal(outcome) /\ h1.heartbeatInterval = "live"
                   THEN [ClearInterval(h1) EXCEPT !.heartbeatInterval = "cleared"]
                   ELSE h1
         IN  host' = HostEvent(h2, [event |-> "heartbeat", outcome |-> outcome])
    /\ HostUnchanged

\* a minute passes; the one-second timer of onload has fired by then
Tick ==
    /\ DOMAIN host.runs # {}
    /\ ~host.loadTimer
    /\ host.now < MaxTime
    /\ host' = HostEvent([host EXCEPT !.now = @ + 1], [event |-> "time"])
    /\ HostUnchanged

NextHost ==
    \/ LoadTimer
    \/ \E r \in DOMAIN host.runs : InitResponse(r)
    \/ \E r \in DOMAIN host.runs : RegisterResponse(r)
    \/ \E r \in DOMAIN host.runs : TurnResponse(r)
    \/ Wake
    \/ RelayButton
    \/ HeartbeatTick
    \/ HeartbeatResponse
    \/ Tick

\* the plugin before onload calls connectSignaling; autoConnect is
\* settings.autoConnect !== false
HostLoaded(email, mph, autoConnect) ==
    [email |-> email, mph |-> mph, credsLoaded |-> FALSE, supabase |-> 0,
     nextClient |-> 0, channel |-> 0, subs |-> [c \in Clients |-> 0],
     heartbeatInterval |-> "null", timers |-> 0, signalId |-> FALSE,
     isConnected |-> FALSE, now |-> 0, lastHeartbeatTime |-> 0, beats |-> 0,
     runs |-> [r \in 1..MaxRuns |-> "idle"], loadTimer |-> TRUE,
     autoConnect |-> autoConnect, stopped |-> FALSE,
     last |-> [event |-> "load"]]

\* the end of onload: connectSignaling() was called when autoConnect is not
\* false, lastHeartbeatTime = Date.now(), and the one-second timer is set
InitHost ==
    /\ settings = SettingsFull
    /\ vault = InitVault
    /\ sessions = [s \in 1..MaxSessions |-> NoSession]
    /\ last = NoEvent
    /\ chan = NoChan
    /\ \E email, mph, autoConnect \in BOOLEAN :
         host = IF autoConnect
                THEN connectSignaling(HostLoaded(email, mph, autoConnect), 1)
                ELSE HostLoaded(email, mph, autoConnect)

SpecHost == InitHost /\ [][NextHost]_vars

-----------------------------------------------------------------------------
(* Properties.                                                             *)

IsData == last.event = "data"
IsHandshake == IsData /\ last.msg.cmd \in HandshakeCmds
IsCommand == IsData /\ last.msg.cmd \notin HandshakeCmds
Engine == last.pre.engine
\* the session the last data event was delivered to, as it is now
Post == sessions[last.sid]
ReadOnlyOf(sess) == IF sess.engine = "main" THEN sess.peerReadOnly ELSE sess.isReadOnly
IdentityOf(sess) == IF sess.engine = "main" THEN <<>> ELSE sess.userIdentifier
AllErrors == \A i \in 1..Len(last.out) : last.out[i].type = "ERROR"
OneError == Len(last.out) = 1 /\ last.out[1].type = "ERROR"
NoVaultEffect == last.ops = <<>> /\ ~last.changed
\* the last handshake granted nothing: an ERROR reply, the auth state as before
HandshakeDenied ==
    /\ OneError
    /\ Post.isAuthenticated = last.pre.isAuthenticated
    /\ ReadOnlyOf(Post) = ReadOnlyOf(last.pre)
    /\ IdentityOf(Post) = IdentityOf(last.pre)

\* C1: while a session is unauthenticated (before and after the message), no
\* message reaches a command handler, the vault is not touched and nothing but
\* ERROR envelopes is sent to the peer.
C1_NoDispatchWhileUnauthenticated ==
    (IsData /\ ~last.pre.isAuthenticated /\ ~Post.isAuthenticated)
        => (~last.dispatched /\ NoVaultEffect /\ AllErrors)

C1_Witness ==
    /\ IsCommand /\ ~last.pre.isAuthenticated
    /\ last.msg.cmd = "GET_RENDERED_FILE" /\ Arg(last.msg, "path") = <<"b">>
    /\ Engine = "cmd" /\ OneError

\* C2: in the answerCall engine every non-handshake message received while
\* unauthenticated is answered with one ERROR envelope and has no other effect.
C2_UnauthenticatedAnsweredWithError ==
    (IsCommand /\ Engine = "main" /\ ~last.pre.isAuthenticated)
        => (OneError /\ NoVaultEffect /\ ~last.dispatched /\ Post = last.pre)

\* C3: a session of the commands module authenticated as read-only never
\* changes the vault, whatever command it sends.
C3_ReadOnlyNeverMutates ==
    (IsCommand /\ Engine = "cmd" /\ last.pre.isAuthenticated /\ last.pre.isReadOnly)
        => NoVaultEffect

\* the mutating commands processCommand handles
MutatingCommands ==
    {"SAVE_FILE", "CREATE_FILE", "CREATE_FOLDER", "RENAME_FILE", "DELETE_FILE"}

ClaimsOwnerIdentity ==
    /\ Has(last.msg, "guestEmail")
    /\ \/ toLowerCase(last.msg.guestEmail) = toLowerCase(settings.userEmail)
       \/ /\ settings.userEmail # <<>>
          /\ trim(toLowerCase(last.msg.guestEmail)) = trim(toLowerCase(settings.userEmail))

\* C5: a handshake that claims the owner's identity with a credential other
\* than the owner's hash is denied, also when that credential is the hash of a
\* guest entry.
C5_IdentityExclusive ==
    (IsHandshake /\ ClaimsOwnerIdentity
       /\ (~Has(last.msg, "authHash") \/ last.msg.authHash # settings.masterPasswordHash))
        => HandshakeDenied

C5_Witness ==
    /\ IsHandshake /\ Engine = "cmd" /\ ClaimsOwnerIdentity
    /\ last.msg.guestEmail = <<" ", "O", "@", "X", " ">>
    /\ Has(last.msg, "authHash") /\ last.msg.authHash # settings.masterPasswordHash
    /\ \E i \in 1..Len(settings.guestList) :
          settings.guestList[i].passHash = last.msg.authHash
    /\ HandshakeDenied

\* the handshake presents the email and the matching hash of a guest entry
\* whose status is not 'verified'
PresentsUnverifiedGuest ==
    /\ TruthySeq(last.msg, "guestEmail") /\ TruthyStr(last.msg, "authHash")
    /\ \E i \in 1..Len(settings.guestList) :
          /\ settings.guestList[i].email = trim(toLowerCase(last.msg.guestEmail))
          /\ settings.guestList[i].passHash = last.msg.authHash
          /\ settings.guestList[i].status # "verified"
          /\ \A j \in 1..Len(settings.guestList) :
                settings.guestList[j].email = settings.guestList[i].email => j = i

\* C6: a guest entry that is not verified never yields a grant.
C6_UnverifiedGuestDenied ==
    (IsHandshake /\ ~ClaimsOwnerIdentity /\ PresentsUnverifiedGuest) => HandshakeDenied

\* C7: a handshake without guestEmail or without authHash (absent or empty)
\* is denied in both engines.
C7_MissingCredentialsDenied ==
    (IsHandshake /\ (~TruthySeq(last.msg, "guestEmail") \/ ~TruthyStr(last.msg, "authHash")))
        => HandshakeDenied

C7_Witness ==
    /\ IsHandshake /\ Engine = "cmd" /\ ~Has(last.msg, "guestEmail")
    /\ Has(last.msg, "authHash") /\ last.msg.authHash = "H"
    /\ Len(settings.guestList) > 0
    /\ HandshakeDenied

\* settings hold the guest entry of the scenario, and no other entry or owner
\* record answers to its email
HasScenarioGuest ==
    /\ FindGuest(settings.guestList, GuestA.email) # 0
    /\ settings.guestList[FindGuest(settings.guestList, GuestA.email)] = GuestA
    /\ toLowerCase(settings.userEmail) # GuestA.email

ReadOnlyText == <<"R", "E", "A", "D", "-", "O", "N", "L", "Y">>

\* C8: the guest handshake of the scenario is answered HANDSHAKE_ACK with
\* readOnly = true, and SAVE_FILE on a read-only session is answered with an
\* ERROR whose message contains "READ-ONLY", without a vault write.
C8_GuestScenario ==
    /\ (IsHandshake /\ HasScenarioGuest /\ ~last.pre.isAuthenticated
          /\ last.msg = [cmd |-> "HANDSHAKE", guestEmail |-> GuestA.email,
                         authHash |-> GuestA.passHash])
         => last.out = <<[type |-> "HANDSHAKE_ACK", readOnly |-> TRUE]>>
    /\ (IsData /\ last.pre.isAuthenticated /\ ReadOnlyOf(last.pre)
          /\ last.msg.cmd = "SAVE_FILE")
         => /\ OneError
            /\ includes(MessageText(last.out[1].message), ReadOnlyText)
            /\ NoVaultEffect

\* C9: once a session is authenticated, its permission level and identity
\* never change.
C9_AuthStateFixed ==
    (IsData /\ last.pre.isAuthenticated)
        => (ReadOnlyOf(Post) = ReadOnlyOf(last.pre) /\ IdentityOf(Post) = IdentityOf(last.pre))

\* C10: once the authenticated flag of a session is true, no step sets it
\* back to false.
C10_AuthMonotonic ==
    [][\A s \in DOMAIN sessions :
          (sessions[s].state # "none" /\ sessions[s].isAuthenticated)
              => (sessions'[s].state # "none" /\ sessions'[s].isAuthenticated)]_vars

C10_Witness ==
    /\ IsHandshake /\ last.pre.isAuthenticated /\ OneError /\ Post.isAuthenticated
    /\ Engine = "cmd"

\* the last message was a handshake that was not granted
HandshakeRefused ==
    IsHandshake /\ ~(Len(last.out) = 1 /\ last.out[1].type \in {"PONG", "HANDSHAKE_ACK"})

\* the host has destroyed the peer of session s (peer.destroy() ran)
DestroyedByHost(s) == last.event = "destroy" /\ last.sid = s

\* C11: every denied handshake is answered with one ERROR envelope and the
\* host then destroys the peer of that session, in both engines.
C11_DeniedHandshakeTornDown ==
    \A s \in 1..MaxSessions :
        [](HandshakeRefused /\ last.sid = s => OneError /\ <>DestroyedByHost(s))

\* a session that is connected and has not authenticated
IdleUnauthenticated(s) == sessions[s].state = "open" /\ ~sessions[s].isAuthenticated

\* C20: no session stays connected and unauthenticated forever: the host
\* closes it after a grace period.
C20_IdleSessionClosed ==
    \A s \in 1..MaxSessions : []<>(~IdleUnauthenticated(s))

\* C15: every response to a request that carried a requestId carries the same
\* requestId, and a response to a request without one carries none.
C15_RequestIdEchoed ==
    IsData =>
        \A i \in 1..Len(last.out) :
            IF Has(last.msg, "requestId")
            THEN Has(last.out[i], "requestId") /\ last.out[i].requestId = last.msg.requestId
            ELSE ~Has(last.out[i], "requestId")

\* the calls that have been made
Calls == { c \in DOMAIN chan.calls : chan.calls[c].state # "idle" }

\* the chunks of the frames call c has emitted, in emission order
ChunksOf(c) ==
    LET fs == SelectSeq(chan.wire, LAMBDA f : f.chunk.of = c)
    IN  [i \in 1..Len(fs) |-> fs[i].chunk]

\* the end marks of the frames call c has emitted, in emission order
EndsOf(c) ==
    LET fs == SelectSeq(chan.wire, LAMBDA f : f.chunk.of = c)
    IN  [i \in 1..Len(fs) |-> fs[i].end]

\* the chunks e, concatenated, are the first n characters of the payload of
\* call c: each chunk starts where the one before it stopped
IsPrefixOf(e, c, n) ==
    /\ \A i \in 1..Len(e) : e[i].of = c /\ e[i].from < e[i].to
    /\ \A i \in 1..Len(e) : e[i].from = (IF i = 1 THEN 0 ELSE e[i - 1].to)
    /\ n = (IF e = <<>> THEN 0 ELSE e[Len(e)].to)

\* the chunks e, concatenated, are the payload of call c
IsPayloadOf(e, c) == e # <<>> /\ IsPrefixOf(e, c, chan.calls[c].totalBytes)

\* C12: the frames of one sendChunked call, concatenated in emission order up
\* to and including the first frame marked end, are the payload, and that
\* frame is the last one the call emits; until then no frame is marked end.
C12_ChunkRoundTrip ==
    \A c \in Calls :
        LET e == ChunksOf(c)
            ends == EndsOf(c)
        IN  /\ \A i \in 1..Len(e) : ends[i] => i = Len(e)
            /\ chan.calls[c].state = "sending"
                 => IsPrefixOf(e, c, chan.calls[c].offset) /\ \A i \in 1..Len(e) : ~ends[i]
            /\ chan.calls[c].state = "done"
                 => IsPayloadOf(e, c) /\ ends[Len(e)]

C12_Witness ==
    \E c \in Calls :
        /\ chan.calls[c].state = "done" /\ chan.calls[c].totalBytes = 32769
        /\ Len(ChunksOf(c)) = 3 /\ IsPayloadOf(ChunksOf(c), c)
        /\ \E i \in 1..Len(chan.wire) : i < Len(chan.wire) /\ chan.wire[i].chunk.of = c
                                        /\ chan.wire[i + 1].chunk.of # c

\* ceil(n / CHUNK_SIZE)
CeilChunks(n) == (n + CHUNK_SIZE - 1) \div CHUNK_SIZE

C14_DemultiplexByKey ==
    /\ \A i \in 1..Len(Received.delivered) :
          \E c \in Calls : IsPayloadOf(Received.delivered[i], c)
    /\ \A k \in Keys :
          \A i, j \in 1..Len(Received.bufs[k]) :
              Received.bufs[k][i].of = Received.bufs[k][j].of

\* C16: a call made while the peer is unauthenticated emits no frame unless
\* its type is ERROR, and a call of type ERROR emits its frames whether the
\* peer is authenticated or not.
C16_OnlyErrorsBeforeAuth ==
    \A c \in Calls :
        /\ (~chan.calls[c].authenticated /\ chan.calls[c].type # "ERROR")
              => (ChunksOf(c) = <<>> /\ chan.calls[c].state = "returned")
        /\ chan.calls[c].type = "ERROR"
              => /\ chan.calls[c].state \in {"sending", "done"}
                 /\ chan.calls[c].state = "done" => IsPayloadOf(ChunksOf(c), c)

C16_Witness ==
    \E c, d \in Calls :
        /\ ~chan.calls[c].authenticated /\ chan.calls[c].type = "FILE"
        /\ chan.calls[c].state = "returned" /\ ChunksOf(c) = <<>>
        /\ ~chan.calls[d].authenticated /\ chan.calls[d].type = "ERROR"
        /\ chan.calls[d].state = "done" /\ Len(ChunksOf(d)) = 2

RECURSIVE SumTo(_, _)
SumTo(f, n) == IF n = 0 THEN 0 ELSE f[n] + SumTo(f, n - 1)

\* the signaling subscriptions that are active
ActiveSubscriptions == SumTo(host.subs, MaxClients)

\* C17: at any time at most one signaling subscription is active and at most
\* one heartbeat timer is running.
C17_OneLiveRegistration == ActiveSubscriptions <= 1 /\ host.timers <= 1

\* C18: a wake event with an owner email configured and more than 6 minutes
\* since the last heartbeat attempt starts a reconnect (stated here for wake
\* events that find no connection attempt in flight).
C18_StaleWakeReconnects ==
    (host.last.event = "wake" /\ host.last.email /\ host.last.stale /\ host.last.settled)
        => host.last.reconnected

\* C19: every heartbeat attempt that ends, whatever its outcome, sets
\* lastHeartbeatTime to the time it ended, and no step moves
\* lastHeartbeatTime to an earlier value.
C19_HeartbeatMonotonic ==
    [][/\ host'.lastHeartbeatTime >= host.lastHeartbeatTime
       /\ host'.last.event = "heartbeat" => host'.lastHeartbeatTime = host.now]_vars

C19_Witness ==
    /\ host.last.event = "heartbeat" /\ host.last.outcome = "network"
    /\ host.lastHeartbeatTime = host.now /\ host.now > 1

\* the command names processCommand has a branch for
mainHandledCommands ==
    HandshakeCmds \cup
    {"GET_TREE", "GET_RENDERED_FILE", "GET_FILE", "SAVE_FILE", "CREATE_FILE",
     "CREATE_FOLDER", "RENAME_FILE", "DELETE_FILE", "OPEN_FILE", "OPEN_DAILY_NOTE"}

\* the command names the switch of handleCommand has a case for
cmdHandledCommands ==
    {"FILE_READ", "FILE_LIST", "FILE_WRITE", "SEARCH", "GET_RENDERED_FILE", "GET_FILE"}

\* the last message named a command the dispatcher of its engine does not handle
IsUnhandledCommand ==
    /\ IsCommand
    /\ last.msg.cmd \notin
         (IF Engine = "main" THEN mainHandledCommands ELSE cmdHandledCommands)

\* C21: a command of an authenticated session that the dispatcher does not
\* handle is answered with one ERROR envelope, the unknown-command one when the
\* message reached the dispatcher; it is never left without a response.
C21_UnknownCommandAnswered ==
    (IsUnhandledCommand /\ last.pre.isAuthenticated)
        => /\ OneError
           /\ last.dispatched => last.out[1].message = "Unknown command: "

\* the read commands that are not the render-for-display command
RawReadCommands == {"GET_FILE", "OPEN_FILE", "FILE_READ", "GET_TREE", "FILE_LIST", "SEARCH"}

\* the path of a message as the engine of session s sanitizes it; <<>> when the
\* engine rejects it
SafePathOf(sess, msg) ==
    IF sess.engine = "main" THEN sanitizePath(Arg(msg, "path"))
    ELSE IF cmdPathRejected(Arg(msg, "path")) THEN <<>>
    ELSE cmdSanitizePath(Arg(msg, "path"))

\* the step delivered a command to the dispatcher of its engine
Dispatches == last'.event = "data" /\ last'.dispatched

\* C22: a read command other than GET_RENDERED_FILE leaves the vault as it
\* was, GET_FILE on a path that does not exist is answered with one ERROR, and
\* GET_RENDERED_FILE on a valid path that does not exist creates one empty
\* file at the sanitized path and nothing else (unless the vault refuses).
C22_AutoCreateAsymmetry ==
    [][Dispatches =>
         LET msg == last'.msg
             p == SafePathOf(last'.pre, msg)
         IN  /\ msg.cmd \in RawReadCommands
                  => (last'.ops = <<>> /\ vault' = vault)
             /\ (msg.cmd = "GET_FILE" /\ ~Exists(vault, p))
                  => (Len(last'.out) = 1 /\ last'.out[1].type = "ERROR")
             /\ (msg.cmd = "GET_RENDERED_FILE" /\ p # <<>> /\ ~Exists(vault, p))
                  => \/ /\ last'.ops = <<Op("create", p)>>
                        /\ vault' = VaultCreate(vault, p)
                     \/ /\ last'.ops = <<>> /\ vault' = vault
                        /\ Len(last'.out) = 1 /\ last'.out[1].type = "ERROR"]_vars

-----------------------------------------------------------------------------
(* The two path sanitizers as functions of any string a message can carry. *)

\* Length of the longest string that is tried exhaustively.
MaxPathLen == 4

\* the character U+0000
Nul == "<0>"

PathChars == {".", "/", "\\", "+", "~", " ", "a", Nul}

\* the strings given as examples of traversal attempts
NamedPaths ==
    { <<".", ".", "/", ".", ".", "/", "e", "t", "c", "/", "p", "a", "s", "s", "w", "d">>,
      <<"a", "/", ".", ".", "/", "b">>,
      <<".", ".", "\\", ".", ".", "\\", "a">> }

PathInputs == UNION { [1..n -> PathChars] : n \in 0..MaxPathLen } \cup NamedPaths

\* this.sanitizePath(msg.path) is called in processCommand
SanitizePathCall ==
    /\ last.event = "path"
    /\ last' = [event |-> "sanitizePath", input |-> last.input,
                output |-> sanitizePath(last.input)]
    /\ UNCHANGED <<settings, vault, sessions, chan, host>>

\* sanitizePath(path) is called in a handler of the commands module
CmdSanitizePathCall ==
    /\ last.event = "path"
    /\ last' = [event |-> "cmdSanitizePath", input |-> last.input,
                rejected |-> cmdPathRejected(last.input),
                output |-> cmdSanitizePath(last.input)]
    /\ UNCHANGED <<settings, vault, sessions, chan, host>>

\* while (clean.includes('..')) clean = clean.replace(/\.\./g, '')
RECURSIVE removeDotDots(_)
removeDotDots(clean) ==
    IF includes(clean, <<".", ".">>) THEN removeDotDots(removeAll(clean, <<".", ".">>))
    ELSE clean

\* NoteRelay.sanitizePath of the later revision of main.js
sanitizePathLater(unsafePath) ==
    IF unsafePath = <<>> THEN <<>>
    ELSE LET c1 == replaceChar(unsafePath, "\\", "/")
             c2 == removeAll(c1, <<Nul>>)
             c3 == collapseSlashes(c2)
             c4 == trim(c3)
             c5 == removeDotDots(c4)
         IN  stripLeadingSlashes(c5)

\* this.sanitizePath(msg.path) is called in the later revision
SanitizePathLaterCall ==
    /\ last.event = "path"
    /\ last' = [event |-> "sanitizePathLater", input |-> last.input,
                output |-> sanitizePathLater(last.input)]
    /\ UNCHANGED <<settings, vault, sessions, chan, host>>

\* a path a response carried is sent back in the next command (the path of
\* CREATE_FILE's reply, then GET_RENDERED_FILE): sanitizePath runs on its own
\* output
SanitizePathAgain ==
    /\ last.event = "sanitizePath"
    /\ last' = [event |-> "sanitizePathAgain", input |-> last.output,
                output |-> sanitizePath(last.output)]
    /\ UNCHANGED <<settings, vault, sessions, chan, host>>

\* the same for the later revision
SanitizePathLaterAgain ==
    /\ last.event = "sanitizePathLater"
    /\ last' = [event |-> "sanitizePathLaterAgain", input |-> last.output,
                output |-> sanitizePathLater(last.output)]
    /\ UNCHANGED <<settings, vault, sessions, chan, host>>

NextPath ==
    \/ SanitizePathCall
    \/ CmdSanitizePathCall
    \/ SanitizePathLaterCall
    \/ SanitizePathAgain
    \/ SanitizePathLaterAgain

InitPath ==
    /\ settings = SettingsFull
    /\ vault = InitVault
    /\ sessions = [s \in 1..MaxSessions |-> NoSession]
    /\ chan = NoChan
    /\ host = NoHost
    /\ \E p \in PathInputs : last = [event |-> "path", input |-> p]

SpecPath == InitPath /\ [][NextPath]_vars

\* the segments of a path are what its slashes separate: s has a segment ".."
HasParentSegment(s, seps) ==
    \E i \in 1..(Len(s) - 1) :
        /\ s[i] = "." /\ s[i + 1] = "."
        /\ i = 1 \/ s[i - 1] \in seps
        /\ i + 1 = Len(s) \/ s[i + 2] \in seps

\* C23: what NoteRelay.sanitizePath returns has no ".." segment and no leading
\* slash, whatever string it is given.
C23_MainSanitizeNoTraversal ==
    last.event = "sanitizePath"
        => /\ ~HasParentSegment(last.output, {"/"})
           /\ last.output = <<>> \/ Head(last.output) # "/"

\* the string s contains the character c
HasChar(s, c) == \E i \in 1..Len(s) : s[i] = c

\* C24: sanitizePath of the commands module rejects every path that has a
\* ".." segment, wherever it stands, and every path that contains a null byte.
C24_CmdSanitizeRejectsTraversal ==
    (/\ last.event = "cmdSanitizePath"
     /\ HasParentSegment(last.input, {"/", "\\"}) \/ HasChar(last.input, Nul))
        => last.rejected

\* the path-taking commands of processCommand
PathCommands ==
    {"GET_RENDERED_FILE", "GET_FILE", "SAVE_FILE", "CREATE_FILE", "CREATE_FOLDER",
     "RENAME_FILE", "DELETE_FILE", "OPEN_FILE"}

\* processCommand was given a path-taking command, and a path of the message
\* (for RENAME_FILE the old or the new one) sanitizes to the empty string
SanitizesToEmpty ==
    /\ IsCommand /\ Engine = "main" /\ last.dispatched
    /\ last.msg.cmd \in PathCommands
    /\ \/ sanitizePath(Arg(last.msg, "path")) = <<>>
       \/ last.msg.cmd = "RENAME_FILE" /\ sanitizePath(Arg(last.msg, "newPath")) = <<>>

RepliesInvalidPath ==
    /\ OneError /\ last.out[1].message = "Invalid path"
    /\ NoVaultEffect

\* C25 as stated: every path-taking command whose path sanitizes to the empty
\* string is answered with ERROR 'Invalid path' and performs no vault operation.
C25_EmptyPathRejected_AsStated == SanitizesToEmpty => RepliesInvalidPath

\* C25: every path-taking command whose path sanitizes to the empty string is
\* answered with ERROR 'Invalid path' and performs no vault operation, a
\* RENAME_FILE provided that it carries data; a RENAME_FILE without data is
\* answered with one ERROR and performs no vault operation either.
C25_EmptyPathRejected ==
    SanitizesToEmpty =>
        IF last.msg.cmd = "RENAME_FILE" /\ ~Has(last.msg, "newPath")
        THEN OneError /\ NoVaultEffect
        ELSE RepliesInvalidPath

C25_Witness ==
    /\ SanitizesToEmpty /\ RepliesInvalidPath
    /\ last.msg = [cmd |-> "RENAME_FILE", path |-> <<"/">>, newPath |-> <<"b">>]

\* commands that require the path to exist, and commands that require it not to
RequireExisting == {"SAVE_FILE", "DELETE_FILE", "RENAME_FILE", "FILE_WRITE"}
RequireMissing == {"CREATE_FILE", "CREATE_FOLDER"}

\* the existence check of command cmd passes for path p in vault v
ExistenceCheckPasses(cmd, v, p) ==
    IF cmd \in RequireExisting THEN Exists(v, p) ELSE ~Exists(v, p)

\* C26: a command that requires an existing path (SAVE_FILE, DELETE_FILE,
\* RENAME_FILE, FILE_WRITE) sent for a missing one, or one that requires a
\* missing path (CREATE_FILE, CREATE_FOLDER) sent for an existing one, is
\* answered with one ERROR and leaves the vault as it was; these commands
\* mutate the vault only when their check passes.
C26_ExistenceChecks ==
    [][(Dispatches /\ last'.msg.cmd \in RequireExisting \cup RequireMissing) =>
         LET msg == last'.msg
             p == SafePathOf(last'.pre, msg)
         IN  /\ (p # <<>> /\ ~ExistenceCheckPasses(msg.cmd, vault, p))
                  => /\ Len(last'.out) = 1 /\ last'.out[1].type = "ERROR"
                     /\ last'.ops = <<>> /\ vault' = vault
             /\ (last'.ops # <<>> \/ vault' # vault)
                  => (p # <<>> /\ ExistenceCheckPasses(msg.cmd, vault, p))]_vars

C26_Witness ==
    /\ IsCommand /\ last.dispatched /\ Engine = "main"
    /\ last.msg.cmd = "SAVE_FILE" /\ Arg(last.msg, "path") = <<"b">>
    /\ ~Exists(vault, <<"b">>)
    /\ OneError /\ last.out[1].message = "File not found" /\ NoVaultEffect

-----------------------------------------------------------------------------
(* Several peers at once: two sessions of either engine, a small set of     *)
(* messages of every kind, and the owner changing the vault password in     *)
(* the settings tab.                                                        *)

\* Number of peer connections that are open at the same time.
MaxPeers == 2

\* the hash of a password the owner sets later
NewHash == "N"

PairMainMsgs ==
    { [cmd |-> "PING", guestEmail |-> <<"o", "@", "x">>, authHash |-> h] :
        h \in {"M", NewHash} }
    \cup { [cmd |-> "SAVE_FILE", path |-> <<"a">>, data |-> "y"],
           [cmd |-> "GET_FILE", path |-> <<"b">>],
           [cmd |-> "BOGUS"] }

PairCmdMsgs ==
    { [cmd |-> "HANDSHAKE", guestEmail |-> <<"o", "@", "x">>, authHash |-> h] :
        h \in {"M", NewHash} }
    \cup { [cmd |-> "HANDSHAKE", guestEmail |-> <<"a", "@", "b">>, authHash |-> "H"],
           [cmd |-> "FILE_WRITE", path |-> <<"a">>, data |-> "y"],
           [cmd |-> "GET_FILE", path |-> <<"b">>] }

PairMainData(s) == MainDataFrom(s, PairMainMsgs)

PairCmdData(s) == CmdDataFrom(s, PairCmdMsgs)

\* the owner enters a new vault password in the settings tab (blur handler):
\* settings.masterPasswordHash = await hashString(value)
SetPassword ==
    /\ settings.masterPasswordHash # NewHash
    /\ settings' = [settings EXCEPT !.masterPasswordHash = NewHash]
    /\ last' = [event |-> "password", sid |-> 0]
    /\ UNCHANGED <<vault, sessions, chan, host>>

NextPair ==
    \/ \E s \in DOMAIN sessions : answerCall(s)
    \/ \E s \in DOMAIN sessions : handleIncomingOffer(s)
    \/ \E s \in DOMAIN sessions : PairMainData(s)
    \/ \E s \in DOMAIN sessions : PairCmdData(s)
    \/ \E s \in DOMAIN sessions : DestroyTimer(s)
    \/ \E s \in DOMAIN sessions : PeerClose(s)
    \/ SetPassword

InitPair ==
    /\ settings = SettingsFull
    /\ vault = InitVault
    /\ sessions = [s \in 1..MaxPeers |-> NoSession]
    /\ last = NoEvent
    /\ chan = NoChan
    /\ host = NoHost

SpecPair == InitPair /\ [][NextPair]_vars

\* C27: a step taken for one session (an offer, a handshake granted or
\* denied, a command, a close or a teardown) leaves every other session as
\* it was: its authentication flag, its read-only flag and its identity.
C27_SessionsIndependent ==
    [][\A t \in DOMAIN sessions : t # last'.sid => sessions'[t] = sessions[t]]_vars

\* one session was granted access while another one is open and unauthenticated
C27_Witness ==
    /\ IsHandshake /\ Post.isAuthenticated /\ ~last.pre.isAuthenticated
    /\ \E t \in DOMAIN sessions :
          /\ t # last.sid /\ sessions[t].state = "open"
          /\ sessions[t].engine = Engine /\ ~sessions[t].isAuthenticated

\* the last handshake was granted: an acknowledgement, the session authenticated
HandshakeGranted ==
    /\ Len(last.out) = 1 /\ last.out[1].type \in {"PONG", "HANDSHAKE_ACK"}
    /\ Post.isAuthenticated

\* C28: a handshake that claims the owner's identity is granted exactly when
\* its hash is the owner hash the settings hold when it is processed, whatever
\* was granted or denied before and whatever the hash was then; otherwise it
\* is denied.
C28_GrantFromCurrentSettings ==
    (IsHandshake /\ ClaimsOwnerIdentity /\ TruthyStr(last.msg, "authHash"))
        => IF last.msg.authHash = settings.masterPasswordHash
           THEN HandshakeGranted
           ELSE HandshakeDenied

\* the password was changed after a session was granted access, and the next
\* session's handshake with the old hash is denied
C28_Witness ==
    /\ settings.masterPasswordHash = NewHash
    /\ IsHandshake /\ ClaimsOwnerIdentity /\ last.msg.authHash = "M"
    /\ HandshakeDenied /\ ~last.pre.isAuthenticated
    /\ \E t \in DOMAIN sessions :
          t # last.sid /\ sessions[t].state = "open" /\ sessions[t].isAuthenticated

\* the handler of msg reaches the vault call that ext.ioFail makes reject
VaultCallReached(msg, v, sess) ==
    LET p == SafePathOf(sess, msg)
    IN  CASE msg.cmd \in {"SAVE_FILE", "DELETE_FILE", "GET_FILE", "FILE_WRITE", "FILE_READ"} ->
               p # <<>> /\ Exists(v, p)
          [] msg.cmd = "RENAME_FILE" ->
               /\ Has(msg, "newPath") /\ p # <<>> /\ sanitizePath(msg.newPath) # <<>>
               /\ Exists(v, p)
          [] msg.cmd \in {"CREATE_FILE", "CREATE_FOLDER", "GET_RENDERED_FILE"} ->
               p # <<>> /\ ~Exists(v, p)
          [] msg.cmd \in {"FILE_LIST", "SEARCH", "OPEN_DAILY_NOTE"} -> TRUE
          [] OTHER -> FALSE

\* the handler of msg reaches the read or render that ext.renderFail makes throw
RenderReached(msg, v, ext, sess) ==
    LET p == SafePathOf(sess, msg)
    IN  CASE msg.cmd = "GET_RENDERED_FILE" -> p # <<>> /\ (Exists(v, p) \/ ~ext.ioFail)
          [] msg.cmd = "CREATE_FILE" -> p # <<>> /\ ~Exists(v, p) /\ ~ext.ioFail
          [] OTHER -> FALSE

\* a failure is raised inside the handler of msg: a collaborator call rejects
\* or throws, or an argument the handler dereferences is missing
FailureRaised(msg, v, ext, sess) ==
    /\ msg.cmd \in (IF sess.engine = "main" THEN mainHandledCommands
                    ELSE cmdHandledCommands)
    /\ \/ msg.cmd = "RENAME_FILE" /\ ~Has(msg, "newPath")
       \/ msg.cmd = "SEARCH" /\ ~Has(msg, "query")
       \/ ext.ioFail /\ VaultCallReached(msg, v, sess)
       \/ ext.renderFail /\ RenderReached(msg, v, ext, sess)

\* what the data handler of session s does with msg: the session afterwards,
\* what is sent, and whether the command reached its handler
HandlerRun(s, msg, ext) ==
    IF sessions[s].engine = "main"
    THEN LET r == answerCallData(settings, msg, vault, ext, sessions[s])
         IN  [sess |-> r.sess, out |-> r.out, dispatched |-> r.dispatched]
    ELSE LET r == handleCommand(settings, msg, vault, ext, sessions[s])
         IN  [sess |-> r.peerState, out |-> r.out, dispatched |-> r.dispatched]

\* C29: whenever a failure is raised inside the handler of a command, the
\* requesting peer is sent one ERROR envelope, and whatever a command does the
\* session stays open with its authentication state as it was, so that the
\* next command is processed as well.
C29_HandlerFailuresBecomeErrors ==
    \A s \in DOMAIN sessions :
        (sessions[s].state = "open" /\ sessions[s].isAuthenticated) =>
            \A msg \in (IF sessions[s].engine = "main" THEN MainMsgs ELSE CmdMsgs) :
                msg.cmd \notin HandshakeCmds =>
                    \A ext \in ExtFor(msg) :
                        LET r == HandlerRun(s, msg, ext)
                        IN  /\ r.sess = sessions[s]
                            /\ (r.dispatched /\ FailureRaised(msg, vault, ext, sessions[s]))
                                 => (Len(r.out) = 1 /\ r.out[1].type = "ERROR")

\* a RENAME_FILE without data was answered with the ERROR of the caught
\* exception, and the session is as it was
C29_Witness ==
    /\ IsCommand /\ last.dispatched /\ Engine = "main"
    /\ last.msg = [cmd |-> "RENAME_FILE", path |-> <<"a">>]
    /\ OneError /\ last.out[1].message = "<error.message>"
    /\ Post = last.pre /\ Post.state = "open" /\ Post.isAuthenticated

\* the registration of the host: the heartbeat timer and its handle, the
\* signal id, the client, the channel and the subscriptions
Registration(h) ==
    <<h.timers, h.heartbeatInterval, h.signalId, h.isConnected, h.supabase,
      h.channel, h.subs>>

\* C30: a heartbeat attempt that ends with a network error or an HTTP status
\* other than 2xx, 401 and 403 leaves the heartbeat timer running and the
\* registration and subscription as they were.
C30_TransientHeartbeatFailureKeepsTimer ==
    [][(host'.last.event = "heartbeat" /\ host'.last.outcome \in {"server", "network"})
          => Registration(host') = Registration(host)]_vars

\* a heartbeat failed with a network error while the host is registered and
\* subscribed; the timer is still running
C30_Witness ==
    /\ host.last.event = "heartbeat" /\ host.last.outcome = "network"
    /\ host.timers = 1 /\ host.heartbeatInterval = "live"
    /\ host.signalId /\ ActiveSubscriptions >= 1

\* C31: while the owner email or the owner credential hash is missing from
\* the settings, no signaling subscription exists, so no offer can be answered.
C31_NoSubscriptionWithoutConfig ==
    (DOMAIN host.runs # {} /\ (~host.email \/ ~host.mph)) => ActiveSubscriptions = 0

-----------------------------------------------------------------------------
(* The HTTP API: the origin middleware of server.js and the routes of      *)
(* routes.js (registerRoutes), with verifyAccess of auth.js.               *)

\* https://noterelay.io
OriginNoteRelayIo ==
    <<"h", "t", "t", "p", "s", ":", "/", "/", "n", "o", "t", "e", "r", "e", "l", "a", "y", ".", "i", "o">>

\* https://app.noterelay.com
OriginAppNoteRelay ==
    <<"h", "t", "t", "p", "s", ":", "/", "/", "a", "p", "p", ".", "n", "o", "t", "e", "r", "e", "l", "a", "y", ".", "c", "o", "m">>

\* http://localhost
OriginLocalhost ==
    <<"h", "t", "t", "p", ":", "/", "/", "l", "o", "c", "a", "l", "h", "o", "s", "t">>

\* http://localhost:3000
OriginLocalhostPort ==
    <<"h", "t", "t", "p", ":", "/", "/", "l", "o", "c", "a", "l", "h", "o", "s", "t", ":", "3", "0", "0", "0">>

\* http://127.0.0.1
OriginLoopbackIp ==
    <<"h", "t", "t", "p", ":", "/", "/", "1", "2", "7", ".", "0", ".", "0", ".", "1">>

\* http://127.0.0.1:8080
OriginLoopbackIpPort ==
    <<"h", "t", "t", "p", ":", "/", "/", "1", "2", "7", ".", "0", ".", "0", ".", "1", ":", "8", "0", "8", "0">>

\* http://localhost.evil.com
OriginLocalhostEvil ==
    <<"h", "t", "t", "p", ":", "/", "/", "l", "o", "c", "a", "l", "h", "o", "s", "t", ".", "e", "v", "i", "l", ".", "c", "o", "m">>

\* https://evil.com
OriginEvil ==
    <<"h", "t", "t", "p", "s", ":", "/", "/", "e", "v", "i", "l", ".", "c", "o", "m">>

\* the ALLOWED_ORIGINS array of server.js
ALLOWED_ORIGINS == <<OriginNoteRelayIo, OriginLocalhost, OriginLoopbackIp>>

\* String.prototype.startsWith
startsWith(s, prefix) ==
    Len(prefix) <= Len(s) /\ SubSeq(s, 1, Len(prefix)) = prefix

\* ALLOWED_ORIGINS.some(...): a list entry that names localhost or 127.0.0.1
\* admits every origin starting with either loopback prefix; any other entry
\* must equal the origin
originAllowed(origin) ==
    \E i \in 1..Len(ALLOWED_ORIGINS) :
        LET allowed == ALLOWED_ORIGINS[i]
        IN  IF includes(allowed, <<"l", "o", "c", "a", "l", "h", "o", "s", "t">>)
               \/ includes(allowed, <<"1", "2", "7", ".", "0", ".", "0", ".", "1">>)
            THEN startsWith(origin, OriginLocalhost) \/ startsWith(origin, OriginLoopbackIp)
            ELSE origin = allowed

\* the origin middleware: a request without an Origin header goes on, an
\* allowed origin goes on, anything else is answered 403
corsPasses(origin) == origin = <<>> \/ originAllowed(origin)

\* the Origin headers of the requests; <<>> is a request without the header
HttpOrigins ==
    { <<>>, OriginNoteRelayIo, OriginAppNoteRelay, OriginLocalhost, OriginLocalhostPort,
      OriginLoopbackIpPort, OriginLocalhostEvil, OriginEvil }

\* hashString: SHA-256 as an injective map from passwords to digests
HttpPasswords == {"m", "h", "x"}
hashString(str) ==
    CASE str = "m" -> "M"
      [] str = "h" -> "H"
      [] OTHER     -> "X"

\* verifyAccess of auth.js
verifyAccess(password, email, st) ==
    LET passwordHash == hashString(password)
        i == FindGuest(st.guestList, email)
    IN  \/ st.masterPasswordHash # "" /\ passwordHash = st.masterPasswordHash
        \/ /\ email # <<>>
           /\ i # 0
           /\ st.guestList[i].passHash = passwordHash
           /\ st.guestList[i].status = "verified"

\* req.params.path of the file routes
HttpPaths == { <<"a">>, <<".", ".", "/", "x">> }

\* req.body.email of POST /api/auth; <<>> is a body without the field
HttpEmails ==
    { <<>>, <<"o", "@", "x">>, <<" ", "O", "@", "X", " ">>, <<"a", "@", "b">>,
      <<"p", "@", "b">> }

\* the response of one request, with the vault mutations the route made;
\* verified records whether an earlier POST /api/auth of the requester
\* answered {valid: true}
HttpEvent(route, origin, status, path, ops) ==
    [event |-> "http", route |-> route, origin |-> origin, status |-> status,
     path |-> path, ops |-> ops, valid |-> FALSE, email |-> <<>>, password |-> "",
     verified |-> last.verified]

\* the middleware answered 403: no route runs
HttpForbidden(route, origin, path) ==
    /\ last' = HttpEvent(route, origin, 403, path, <<>>)
    /\ UNCHANGED <<settings, vault, sessions, chan, host>>

\* POST /api/auth
HttpAuth ==
    \E origin \in HttpOrigins, password \in HttpPasswords, email \in HttpEmails :
        IF ~corsPasses(origin) THEN HttpForbidden("POST /api/auth", origin, <<>>)
        ELSE LET valid == verifyAccess(password, email, settings)
             IN  /\ last' = [HttpEvent("POST /api/auth", origin, 200, <<>>, <<>>)
                               EXCEPT !.valid = valid, !.email = email,
                                      !.password = password,
                                      !.verified = last.verified \/ valid]
                 /\ UNCHANGED <<settings, vault, sessions, chan, host>>

\* GET /api/file/:path(*), text files
HttpReadFile ==
    \E origin \in HttpOrigins, filePath \in HttpPaths :
        IF ~corsPasses(origin) THEN HttpForbidden("GET /api/file", origin, filePath)
        ELSE /\ last' = HttpEvent("GET /api/file", origin,
                                  IF Exists(vault, filePath) THEN 200 ELSE 404,
                                  filePath, <<>>)
             /\ UNCHANGED <<settings, vault, sessions, chan, host>>

\* POST /api/file/:path(*): vault.adapter.write(filePath, content), which
\* creates or overwrites the file, or throws
HttpWriteFile ==
    \E origin \in HttpOrigins, filePath \in HttpPaths, content \in MsgData,
       ioFail \in BOOLEAN :
        IF ~corsPasses(origin) THEN HttpForbidden("POST /api/file", origin, filePath)
        ELSE IF ioFail
        THEN /\ last' = HttpEvent("POST /api/file", origin, 500, filePath, <<>>)
             /\ UNCHANGED <<settings, vault, sessions, chan, host>>
        ELSE /\ vault' = (filePath :> File(content)) @@ vault
             /\ last' = HttpEvent("POST /api/file", origin, 200, filePath,
                                  <<Op("write", filePath)>>)
             /\ UNCHANGED <<settings, sessions, chan, host>>

\* DELETE /api/file/:path(*): vault.adapter.remove(filePath), which throws
\* when there is no such file
HttpDeleteFile ==
    \E origin \in HttpOrigins, filePath \in HttpPaths :
        IF ~corsPasses(origin) THEN HttpForbidden("DELETE /api/file", origin, filePath)
        ELSE IF ~Exists(vault, filePath)
        THEN /\ last' = HttpEvent("DELETE /api/file", origin, 500, filePath, <<>>)
             /\ UNCHANGED <<settings, vault, sessions, chan, host>>
        ELSE /\ vault' = VaultTrash(vault, filePath)
             /\ last' = HttpEvent("DELETE /api/file", origin, 200, filePath,
                                  <<Op("delete", filePath)>>)
             /\ UNCHANGED <<settings, sessions, chan, host>>

NextHttp ==
    \/ HttpAuth
    \/ HttpReadFile
    \/ HttpWriteFile
    \/ HttpDeleteFile

\* the server is listening and no request has been made
InitHttp ==
    /\ settings \in SettingsSet
    /\ vault = InitVault
    /\ sessions = [s \in 1..MaxSessions |-> NoSession]
    /\ chan = NoChan
    /\ host = NoHost
    /\ last = [event |-> "listen", verified |-> FALSE]

SpecHttp == InitHttp /\ [][NextHttp]_vars

\* an optional port: nothing, or a colon and digits
IsPort(s) ==
    s = <<>> \/ (Len(s) >= 2 /\ s[1] = ":"
                 /\ \A i \in 2..Len(s) :
                      s[i] \in {"0", "1", "2", "3", "4", "5", "6", "7", "8", "9"})
IsLoopbackOrigin(o) ==
    \E h \in {OriginLocalhost, OriginLoopbackIp} :
        startsWith(o, h) /\ IsPort(SubSeq(o, Len(h) + 1, Len(o)))
DocumentedOrigin(o) ==
    o \in {OriginAppNoteRelay, OriginNoteRelayIo} \/ IsLoopbackOrigin(o)
\* C32: a request carrying an Origin header passes the origin check exactly
\* when the origin is https://app.noterelay.com, https://noterelay.io, or
\* http://localhost or http://127.0.0.1 with any port; every other origin is
\* answered 403.
C32_OriginWhitelist ==
    (last.event = "http" /\ last.origin # <<>>)
        => ((last.status # 403) <=> DocumentedOrigin(last.origin))

\* a path that either sanitizer would have let through unchanged
IsSanitizedPath(p) == ~cmdPathRejected(p) /\ sanitizePath(p) = p

\* C37: a vault write or delete made for a remote HTTP request is made only
\* for a requester whose credentials were verified, and only on a sanitized
\* path.
C37_RemoteMutationsVerifiedAndSanitized ==
    (last.event = "http" /\ last.ops # <<>>)
        => /\ last.verified
           /\ \A i \in 1..Len(last.ops) : IsSanitizedPath(last.ops[i].path)

\* C39: the answer of POST /api/auth, verifyAccess(password, email, settings),
\* is the grant decision of handleAuth for the handshake
\* {guestEmail: email, authHash: SHA-256(password)}.
C39_VerifyAccessMatchesHandleAuth ==
    (last.event = "http" /\ last.route = "POST /api/auth" /\ last.status = 200)
        => last.valid = handleAuth(settings,
                                   [cmd |-> "HANDSHAKE", guestEmail |-> last.email,
                                    authHash |-> hashString(last.password)]).accessGranted

\* session s is open and unauthenticated, and its last message was a handshake
\* that was refused
JustDenied(s) ==
    /\ HandshakeRefused /\ last.sid = s
    /\ sessions[s].state = "open" /\ ~sessions[s].isAuthenticated

\* C33: a session whose handshake was denied does not become authenticated
\* afterwards and has no command dispatched, also when a valid handshake
\* arrives before the host has destroyed the peer.
C33_DeniedSessionStaysOut ==
    [][\A s \in 1..MaxSessions :
          JustDenied(s) =>
              /\ sessions'[s].state # "none" => ~sessions'[s].isAuthenticated
              /\ ~(last'.event = "data" /\ last'.sid = s /\ last'.dispatched)]_vars

\* every connectSignaling invocation has run to its end
Settled == \A r \in DOMAIN host.runs : host.runs[r] = "idle"

\* C34: when the last request was a disconnect that ran while a
\* connectSignaling invocation was suspended, and every invocation has since
\* finished, the plugin is disconnected: no signal id, isConnected false, no
\* heartbeat timer, no subscription.
C34_DisconnectWins ==
    (DOMAIN host.runs # {} /\ host.stopped /\ Settled)
        => /\ ~host.signalId
           /\ ~host.isConnected
           /\ host.timers = 0
           /\ ActiveSubscriptions = 0

\* a 401/403 heartbeat response has cleared the timer and no registration has
\* succeeded and no disconnect has run since
KillSwitched == DOMAIN host.runs # {} /\ host.heartbeatInterval = "cleared"

\* C35: after a heartbeat was answered 401 or 403, and until a registration
\* succeeds again, no heartbeat timer runs and no subscription delivers
\* offers to answerCall.
C35_KillSwitch ==
    KillSwitched => host.timers = 0 /\ ActiveSubscriptions = 0

\* C36: with autoConnect false, loading the plugin starts no connectSignaling
\* run, neither in onload itself nor from a timer onload sets.
C36_NoConnectWhenOff ==
    (DOMAIN host.runs # {} /\ ~host.autoConnect)
        => ~(host.last.event = "connect" /\ host.email)

\* C38: sanitizePath of main.js, in either revision, returns its own output
\* unchanged: a path that was already sanitized is used as it is.
C38_SanitizeIdempotent ==
    last.event \in {"sanitizePathAgain", "sanitizePathLaterAgain"}
        => last.output = last.input

====
